---- MODULE Spec2Model ----
(***************************************************************************)
(* A model of the WhatsApp webhook relay: the conversation state machine   *)
(* (src/src/conversation/handlers.py), the session store                   *)
(* (src/src/storage/session_store.py), and the webhook dispatcher with its *)
(* de-dupe ledger, in-flight semaphore, worker pool and sender locks       *)
(* (src/src/app.py).                                                       *)
(*                                                                         *)
(* Twelve specifications share the variables:                              *)
(*   HSpec     one sender's messages handled one after the other, the      *)
(*             backend's answers drawn in full (handle_incoming_message    *)
(*             as one action per message, the clock standing still);       *)
(*   DSpec     HSpec over shorter conversations, each run compared with    *)
(*             every second run from the same stored session;              *)
(*   Spec      the webhook requests step by step (ledger, semaphore,       *)
(*             executor) with pool threads that process a task in one      *)
(*             step, and the clock;                                        *)
(*   FairSpec  Spec within one tick, its threads taking the steps they     *)
(*             can take;                                                   *)
(*   LSpec     the pool threads step by step (lock registry, lock, load,   *)
(*             run, unlock, release) with requests that deliver a message  *)
(*             in one step, and the clock;                                 *)
(*   GSpec     Spec within one tick, with the posts that the signature     *)
(*             check turns away;                                           *)
(*   SSpec     get, upsert and clear called on the local session store in  *)
(*             any order while the clock runs;                             *)
(*   TSpec     DSpec with the clock: each message less than the session    *)
(*             TTL after the one before;                                   *)
(*   USpec     DSpec started from a stored session in a state the handler  *)
(*             does not know;                                              *)
(*   RSpec     the Redis sender lease (src/src/storage/                    *)
(*             redis_session_store.py, RedisLock) taken and released by    *)
(*             the pool threads around the local sender lock, and the      *)
(*             clock;                                                      *)
(*   FairRSpec RSpec with the clock running and the threads taking the     *)
(*             steps they can take;                                        *)
(*   ESpec     the same get, upsert and clear calls, and the same          *)
(*             assignments to the sessions got, on the local store and     *)
(*             on the Redis store.                                         *)
(* The Redis sender lease, which delays a thread for at most three seconds *)
(* and excludes nothing, is left out of the other specifications.          *)
(***************************************************************************)
EXTENDS Integers, Sequences, FiniteSets, TLC

\* ------------------------------------------------------------------ values

\* Python's None for an optional string field.
NONE == "<none>"

\* bool(x) of an optional string: None and "" are falsy.
Truthy(x) == x # NONE /\ x # ""

\* x or y, for optional strings.
OrElse(x, y) == IF Truthy(x) THEN x ELSE y

\* str.strip() on the texts of the model (one of them carries blanks).
Strip(t) ==
  CASE t = " abc " -> "abc"
    [] t = " " -> ""
    [] OTHER -> t

\* str.lower() on the texts of the model.
Lower(t) ==
  CASE t = "Hello" -> "hello"
    [] t = "ABC" -> "abc"
    [] t = "XYZ" -> "xyz"
    [] t = "Ama" -> "ama"
    [] t = "Restart" -> "restart"
    [] OTHER -> t

\* str.upper() on the texts of the model.
Upper(t) ==
  CASE t = "abc" -> "ABC"
    [] t = "xyz" -> "XYZ"
    [] t = "Ama" -> "AMA"
    [] t = "hi" -> "HI"
    [] t = "Hello" -> "HELLO"
    [] t = "back" -> "BACK"
    [] t = "help" -> "HELP"
    [] OTHER -> t

normalize_text(text) == Strip(IF text = NONE THEN "" ELSE text)

ConversationState ==
  [WAIT_EVENT_CODE |-> "wait_event_code", WAIT_NAME |-> "wait_name", MENU |-> "menu",
   WAIT_CONDOLENCE |-> "wait_condolence", WAIT_DONATION_AMOUNT |-> "wait_donation_amount"]

_is_greeting(text) ==
  Lower(normalize_text(text)) \in
    {"hi", "hello", "hey", "good morning", "good afternoon", "good evening"}

\* The digits of the sender key, after an optional "whatsapp:" prefix and "+".
_normalize_phone(sender_key) ==
  CASE sender_key = "233201" -> "233201"
    [] sender_key = "233202" -> "233202"
    [] sender_key = "whatsapp:+233201" -> "233201"
    [] OTHER -> ""

_normalize_choice(text) ==
  LET t == Lower(normalize_text(text)) IN
  CASE t = "" -> ""
    [] t \in {"0", "menu", "main menu", "home"} -> "menu"
    [] t \in {"help", "?"} -> "help"
    [] t \in {"restart", "reset", "start over"} -> "restart"
    [] t = "back" -> "back"
    [] t \in {"1", "brochure", "download", "pdf", "program"} -> "brochure"
    [] t \in {"2", "donate", "donation", "give", "donate now"} -> "donate"
    [] t \in {"3", "condolence", "message", "send message"} -> "condolence"
    [] t \in {"4", "location", "venue", "address", "where", "map"} -> "location"
    [] OTHER -> t

_normalize_event_code(code) == Upper(Strip(IF code = NONE THEN "" ELSE code))

\* settings.default_event_name / default_event_location / ..._url (src/src/config.py).
DefaultEventName == "Yala Event"
DefaultEventLocation == NONE
DefaultEventLocationUrl == NONE

\* No event code of the model occurs inside the default event name, so the
\* "(CODE)" suffix is added whenever the code is not empty.
_event_display_name(unique_code) ==
  LET code == _normalize_event_code(unique_code) IN
  IF code # "" THEN DefaultEventName \o " (" \o code \o ")" ELSE DefaultEventName

\* Whether a list of codes holds `unique_code` under trimmed upper-case comparison.
CodesHave(codes, unique_code) ==
  LET code == _normalize_event_code(unique_code) IN
  code # "" /\ \E i \in 1..Len(codes) : _normalize_event_code(codes[i]) = code

_guest_has_event_code(session, unique_code) ==
  CodesHave(session.funeral_unique_codes, unique_code)

\* An error text is modelled by the set of marker words it contains; None and ""
\* are the empty set.
_looks_like_auth_error(error) ==
  /\ error # {}
  /\ \/ "401" \in error
     \/ "unauthorized" \in error
     \/ "forbidden" \in error
     \/ "jwt" \in error
     \/ ("token" \in error /\ "expire" \in error)

\* ----------------------------------------------------------------- session

\* Session(state=..., phone_number=...) with every other field at its default.
\* funeral_unique_codes None and [] are both the empty list (the handler reads
\* the field only as `session.funeral_unique_codes or []`).
Session(state, phone_number) ==
  [state |-> state, phone_number |-> phone_number, event_code |-> NONE,
   event_id |-> NONE, event_name |-> NONE, event_location |-> NONE,
   event_location_url |-> NONE, guest_name |-> NONE, guest_id |-> NONE,
   backend_token |-> NONE, funeral_unique_codes |-> <<>>, updated_at |-> 0]

\* A touch that also leaves the time of the write in the session's location.
touchDated(session, now) ==
  [session EXCEPT !.updated_at = now,
                  !.event_location = IF now = 0 THEN @ ELSE "late"]

\* Session.touch() at time `now`.
touch(session, now) == [session EXCEPT !.updated_at = now]

\* OutgoingMessage(text, media_url, interactive_menu, guest_name); the text is
\* the list of its parts.
OutgoingMessage(text, media_url, interactive_menu, guest_name) ==
  [text |-> text, media_url |-> media_url, interactive_menu |-> interactive_menu,
   guest_name |-> guest_name]

TextMessage(text) == OutgoingMessage(text, NONE, FALSE, NONE)

_menu_text(guest_name) == <<"MENU", guest_name>>

\* The menu sent as plain text.
MenuMessagePlain(guest_name) == OutgoingMessage(_menu_text(guest_name), NONE, FALSE, guest_name)

MenuMessage(guest_name) == OutgoingMessage(_menu_text(guest_name), NONE, TRUE, guest_name)

WELCOME_TEXT == <<"WELCOME">>

\* One backend call as the run's log keeps it: the operation, its argument (the
\* code, the event id or the phone), a second argument (name, guest id), the
\* token passed, the session's known codes at the moment of the call, the
\* result's status, whether the result was an authorization error, the token
\* the result carries (guest calls), and the result itself.
BackendCall(op, arg, aux, session, result) ==
  [op |-> op, arg |-> arg, aux |-> aux, token |-> session.backend_token,
   codes |-> session.funeral_unique_codes, status |-> result.status,
   auth_error |-> (result.status = "error" /\ _looks_like_auth_error(result.error)),
   granted |-> IF "token" \in DOMAIN result THEN result.token ELSE NONE,
   result |-> result]

\* What one run of handle_incoming_message leaves: the session object it ends
\* with, its effect on the store entry ("upsert", "clear" or "none"), whether
\* the upserted object is a new Session (not the one loaded), the outgoing
\* message, the backend calls made, and whether it raised.
Outcome(session, effect, fresh, out, calls) ==
  [session |-> session, effect |-> effect, fresh |-> fresh, out |-> out,
   calls |-> calls, raised |-> FALSE]

Raised(session, effect, calls) ==
  [session |-> session, effect |-> effect, fresh |-> FALSE,
   out |-> TextMessage(<<>>), calls |-> calls, raised |-> TRUE]

\* ------------------------------------------------------------ backend results

AuthErrorText == {"http", "401"}
OtherErrorText == {"http", "500"}

\* GuestAuthResult values of check_guest_registration / register_guest.
GuestResult(status, hasGuest, codes, token, error) ==
  [status |-> status, hasGuest |-> hasGuest, guest_id |-> IF hasGuest THEN "g1" ELSE NONE,
   full_name |-> IF hasGuest THEN "Kofi" ELSE NONE, codes |-> codes, token |-> token,
   error |-> error]

\* [str(x).strip() for x in raw if str(x).strip()]
StrippedCodes(raw) == SelectSeq([i \in 1..Len(raw) |-> Strip(raw[i])], LAMBDA c : c # "")

\* A parser that keeps the guest's name as the backend sent it, blank included.
_parse_guest_auth_unnamed(guest_raw, token, status) ==
  [status |-> status, hasGuest |-> TRUE, guest_id |-> Strip(guest_raw._id),
   full_name |-> Strip(guest_raw.fullName),
   codes |-> StrippedCodes(guest_raw.funeralUniqueCode),
   token |-> IF Truthy(token) THEN token ELSE NONE, error |-> {}]

\* HttpBackendClient._parse_guest_auth on the "guest" object and the token of a
\* backend response: the guest's id and phone number are required, the name
\* falls back to the phone number, and funeralUniqueCode is kept as the list
\* of its non-blank items, trimmed, in the backend's order.
_parse_guest_auth(guest_raw, token, status) ==
  LET guest_id == Strip(guest_raw._id)
      full_name == Strip(guest_raw.fullName)
      phone_number == Strip(guest_raw.phoneNumber)
  IN IF guest_id = "" \/ phone_number = ""
     THEN [status |-> "error", hasGuest |-> FALSE, guest_id |-> NONE, full_name |-> NONE,
           codes |-> <<>>, token |-> NONE, error |-> {"invalid"}]
     ELSE [status |-> status, hasGuest |-> TRUE, guest_id |-> guest_id,
           full_name |-> IF full_name # "" THEN full_name ELSE phone_number,
           codes |-> StrippedCodes(guest_raw.funeralUniqueCode),
           token |-> IF Truthy(token) THEN token ELSE NONE, error |-> {}]

\* A guest the backend holds without a name, whose funeralUniqueCode lists one
\* code in two spellings and a blank item.
NamelessGuest ==
  [_id |-> "g1", fullName |-> " ", phoneNumber |-> "233201",
   funeralUniqueCode |-> <<"ABC", " ", "abc">>]

CheckResults ==
  {GuestResult("found", TRUE, <<>>, "T2", {}), GuestResult("found", TRUE, <<"ABC">>, "T2", {}),
   GuestResult("found", TRUE, <<>>, NONE, {}),
   GuestResult("not_found", FALSE, <<>>, NONE, {}),
   GuestResult("error", FALSE, <<>>, NONE, AuthErrorText),
   _parse_guest_auth(NamelessGuest, "T2", "found")}

RegisterResults ==
  {GuestResult("created", TRUE, <<>>, "T1", {}), GuestResult("created", TRUE, <<>>, NONE, {}),
   GuestResult("found", TRUE, <<"ABC">>, "T1", {}),
   GuestResult("error", FALSE, <<>>, NONE, OtherErrorText),
   _parse_guest_auth(NamelessGuest, "T1", "found")}

NoGuestResult == GuestResult("not_found", FALSE, <<>>, NONE, {})

\* Results of the four calls that are retried after an authorization error. One
\* record shape serves the four: `value` is the event id, the brochure's media
\* URL or the location's name, `name` the event's name or the location's link.
OpResult(status, has, value, name, error) ==
  [status |-> status, has |-> has, value |-> value, name |-> name, error |-> error]

NoOpResult == OpResult("none", FALSE, NONE, NONE, {})

ErrorResults ==
  {OpResult("error", FALSE, NONE, NONE, AuthErrorText),
   OpResult("error", FALSE, NONE, NONE, OtherErrorText)}

\* The found result of HttpBackendClient.get_event_by_code when the backend
\* sends no uniqueCode of its own: the event's id is the trimmed code, its name
\* the backend's description or, without one, the default event name with the
\* code appended (no code of the model occurs inside the default name).
FoundEvent(code, description) ==
  LET unique_code == Strip(code)
      name == IF Strip(description) # "" THEN Strip(description)
              ELSE DefaultEventName \o " (" \o unique_code \o ")"
  IN OpResult("found", TRUE, unique_code, name, {})

\* get_event_by_code(code): found, with or without a description, not_found,
\* or an error.
EventResults(code) ==
  {FoundEvent(code, "Funeral of K"), FoundEvent(code, " "),
   OpResult("not_found", FALSE, NONE, NONE, {})} \cup ErrorResults

BrochureResults ==
  {OpResult("ready", TRUE, "https://b/1.pdf", NONE, {}),
   OpResult("missing", FALSE, NONE, NONE, {})} \cup ErrorResults

LocationResults ==
  {OpResult("ready", TRUE, "Chapel", "https://maps/1", {}),
   OpResult("ready", TRUE, NONE, NONE, {}),
   OpResult("missing", FALSE, NONE, NONE, {})} \cup ErrorResults

CondolenceResults ==
  {OpResult("ok", FALSE, NONE, NONE, {}),
   OpResult("unavailable", FALSE, NONE, NONE, {"disabled"})} \cup ErrorResults

\* The backend results one run of the handler draws: `guest` answers
\* check_guest_registration, `reg` register_guest, `first` the run's retried
\* operation and `retry` its second invocation.
Oracle(guest, reg, first, retry) ==
  [guest |-> guest, reg |-> reg, first |-> first, retry |-> retry]

\* ------------------------------------------------------------------ handler

\* The guest fields a found guest record overwrites (prefetch, restart, refresh).
AdoptGuest(session, guest) ==
  [session EXCEPT !.guest_id = guest.guest_id, !.guest_name = guest.full_name,
                  !.backend_token = guest.token, !.funeral_unique_codes = guest.codes]

\* _refresh_guest_auth_if_possible: [ok, session, calls]; on success the
\* session is upserted (touched).
_refresh_guest_auth_if_possible(session, phone_number, o, now) ==
  LET phone == OrElse(session.phone_number, phone_number) IN
  IF ~Truthy(phone)
  THEN [ok |-> FALSE, session |-> session, calls |-> <<>>]
  ELSE LET call == BackendCall("check_guest_registration", phone, NONE, session, o.guest) IN
       IF o.guest.status # "found" \/ ~o.guest.hasGuest
       THEN [ok |-> FALSE, session |-> session, calls |-> <<call>>]
       ELSE [ok |-> TRUE, session |-> touch(AdoptGuest(session, o.guest), now),
             calls |-> <<call>>]

\* The arguments of the retried operations, read from the session at the moment
\* of the call: get_event_by_code(code), get_brochure(event_id),
\* get_funeral_location(event_id), submit_condolence(event_id, guest_id, text).
CallOf(op, code, session, result) ==
  CASE op = "get_event_by_code" -> BackendCall(op, code, NONE, session, result)
    [] op = "submit_condolence" ->
         BackendCall(op, session.event_id, <<session.guest_id, code>>, session, result)
    [] OTHER -> BackendCall(op, session.event_id, NONE, session, result)

\* A handler that retries the call although the refresh did not succeed.
CallWithAuthRetryUnchecked(op, code, session, phone_number, o, now) ==
  LET c1 == CallOf(op, code, session, o.first) IN
  IF o.first.status = "error" /\ _looks_like_auth_error(o.first.error)
  THEN LET rf == _refresh_guest_auth_if_possible(session, phone_number, o, now) IN
       [session |-> rf.session, result |-> o.retry,
        calls |-> <<c1>> \o rf.calls \o <<CallOf(op, code, rf.session, o.retry)>>,
        refreshed |-> rf.ok]
  ELSE [session |-> session, result |-> o.first, calls |-> <<c1>>, refreshed |-> FALSE]

\* result = backend.op(...); if it is an authorization error and the refresh
\* succeeds, result = backend.op(...) once more. [session, result, calls,
\* refreshed].
CallWithAuthRetry(op, code, session, phone_number, o, now) ==
  LET c1 == CallOf(op, code, session, o.first) IN
  IF o.first.status = "error" /\ _looks_like_auth_error(o.first.error)
  THEN LET rf == _refresh_guest_auth_if_possible(session, phone_number, o, now) IN
       IF rf.ok
       THEN [session |-> rf.session, result |-> o.retry,
             calls |-> <<c1>> \o rf.calls \o <<CallOf(op, code, rf.session, o.retry)>>,
             refreshed |-> TRUE]
       ELSE [session |-> session, result |-> o.first, calls |-> <<c1>> \o rf.calls,
             refreshed |-> FALSE]
  ELSE [session |-> session, result |-> o.first, calls |-> <<c1>>, refreshed |-> FALSE]

\* A first message answered without the prefetch of the guest.
HandleFreshWithoutPrefetch(phone_number, o, now) ==
  Outcome(touch(Session(ConversationState.WAIT_EVENT_CODE,
                        IF phone_number # "" THEN phone_number ELSE NONE), now),
          "upsert", TRUE, TextMessage(WELCOME_TEXT), <<>>)

\* session is None: a new Session, the guest prefetched by phone, upserted.
HandleFresh(phone_number, o, now) ==
  LET s0 == Session(ConversationState.WAIT_EVENT_CODE,
                    IF phone_number # "" THEN phone_number ELSE NONE)
      calls == IF phone_number # ""
               THEN <<BackendCall("check_guest_registration", phone_number, NONE, s0, o.guest)>>
               ELSE <<>>
      s1 == IF phone_number # "" /\ o.guest.status = "found" /\ o.guest.hasGuest
            THEN AdoptGuest(s0, o.guest) ELSE s0
  IN Outcome(touch(s1, now), "upsert", TRUE, TextMessage(WELCOME_TEXT), calls)

\* The "restart" command: store.clear(sender_key), then a new Session with the
\* guest looked up by phone, upserted; nothing of the old session is read.
HandleRestartKeepingGuest(session, phone_number, o, now) ==
  LET fresh == HandleFresh(phone_number, o, now) IN
  [fresh EXCEPT !.session = [@ EXCEPT !.guest_id = session.guest_id,
                                      !.guest_name = session.guest_name,
                                      !.backend_token = session.backend_token,
                                      !.funeral_unique_codes = session.funeral_unique_codes]]

HandleRestart(session, phone_number, o, now) == HandleFresh(phone_number, o, now)

\* A help that writes the session back.
HandleHelpTouching(session, now) ==
  Outcome(touch(session, now), "upsert", FALSE,
          TextMessage(IF Truthy(session.guest_name)
                      THEN <<"HELP">> \o _menu_text(session.guest_name) ELSE <<"HELP">>),
          <<>>)

\* The "help" command: the help text, with the menu when the guest name is
\* known; no store write.
HandleHelp(session, now) ==
  Outcome(session, "none", FALSE,
          TextMessage(IF Truthy(session.guest_name)
                      THEN <<"HELP">> \o _menu_text(session.guest_name) ELSE <<"HELP">>),
          <<>>)

\* The event is known: go to the menu when the guest name is known, else ask it.
EventKnown(session, now, calls) ==
  IF Truthy(session.guest_name)
  THEN Outcome(touch([session EXCEPT !.state = ConversationState.MENU], now), "upsert", FALSE,
               MenuMessage(session.guest_name), calls)
  ELSE Outcome(touch([session EXCEPT !.state = ConversationState.WAIT_NAME], now), "upsert", FALSE,
               TextMessage(<<"EVENT_ASK_NAME", session.event_name>>), calls)

\* session.funeral_unique_codes with the verified code appended when it is new.
CacheCode(session, code) ==
  IF code # "" /\ ~CodesHave(session.funeral_unique_codes, code)
  THEN [session EXCEPT !.funeral_unique_codes = Append(@, code)]
  ELSE session

\* An adoption from the cache that sets the event's id and leaves its name.
AdoptCachedUnnamed(session, code) ==
  [session EXCEPT !.event_id = code,
                  !.event_location = DefaultEventLocation,
                  !.event_location_url = DefaultEventLocationUrl]

AdoptCached(session, code) ==
  [session EXCEPT !.event_id = code, !.event_name = _event_display_name(code),
                  !.event_location = DefaultEventLocation,
                  !.event_location_url = DefaultEventLocationUrl]

\* An adoption of the verified event that drops the code it was verified for.
AdoptVerifiedWithoutCode(session, result) ==
  [session EXCEPT !.event_code = NONE, !.event_id = result.value, !.event_name = result.name,
                  !.event_location = DefaultEventLocation,
                  !.event_location_url = DefaultEventLocationUrl]

AdoptVerified(session, result) ==
  [session EXCEPT !.event_id = result.value, !.event_name = result.name,
                  !.event_location = DefaultEventLocation,
                  !.event_location_url = DefaultEventLocationUrl]

\* A collection that stores the code in its normalized, upper-case form.
CollectCodeNormalized(session, text) ==
  [session EXCEPT !.event_code = _normalize_event_code(text),
                  !.state = ConversationState.WAIT_NAME]

\* No token yet: the code is collected as entered and the name asked first.
CollectCode(session, text) ==
  [session EXCEPT !.event_code = text, !.state = ConversationState.WAIT_NAME]

\* A wait_event_code that stores the code although it was not found.
HandleWaitEventCodeKeepingCode(session, text, phone_number, o, now) ==
  IF text = "" \/ _is_greeting(text)
  THEN Outcome(session, "none", FALSE, TextMessage(WELCOME_TEXT), <<>>)
  ELSE IF ~Truthy(session.backend_token)
  THEN Outcome(touch(CollectCode(session, text), now),
               "upsert", FALSE, TextMessage(<<"ASK_NAME">>), <<>>)
  ELSE IF _guest_has_event_code(session, text)
  THEN LET code == _normalize_event_code(text) IN
       EventKnown(AdoptCached([session EXCEPT !.event_code = code], code), now, <<>>)
  ELSE LET v == CallWithAuthRetry("get_event_by_code", text, session, phone_number, o, now) IN
       IF v.result.status # "found" \/ ~v.result.has
       THEN Outcome(touch([v.session EXCEPT !.event_code = text], now), "upsert", FALSE,
                    TextMessage(<<"CODE_NOT_FOUND">>), v.calls)
       ELSE LET code == _normalize_event_code(text) IN
            EventKnown(CacheCode(AdoptVerified([v.session EXCEPT !.event_code = code], v.result),
                                 code),
                       now, v.calls)

\* state wait_event_code.
HandleWaitEventCode(session, text, phone_number, o, now) ==
  IF text = "" \/ _is_greeting(text)
  THEN Outcome(session, "none", FALSE, TextMessage(WELCOME_TEXT), <<>>)
  ELSE IF ~Truthy(session.backend_token)
  THEN Outcome(touch(CollectCode(session, text), now),
               "upsert", FALSE, TextMessage(<<"ASK_NAME">>), <<>>)
  ELSE IF _guest_has_event_code(session, text)
  THEN LET code == _normalize_event_code(text) IN
       EventKnown(AdoptCached([session EXCEPT !.event_code = code], code), now, <<>>)
  ELSE LET v == CallWithAuthRetry("get_event_by_code", text, session, phone_number, o, now) IN
       IF v.result.status # "found" \/ ~v.result.has
       THEN Outcome(v.session, IF v.refreshed THEN "upsert" ELSE "none", FALSE,
                    TextMessage(<<"CODE_NOT_FOUND">>), v.calls)
       ELSE LET code == _normalize_event_code(text) IN
            EventKnown(CacheCode(AdoptVerified([v.session EXCEPT !.event_code = code], v.result),
                                 code),
                       now, v.calls)

\* A wait_name that keeps the pending code when it was not found.
HandleWaitNameKeepingCode(session, text, phone_number, o, now) ==
  IF text = ""
  THEN Outcome(session, "none", FALSE, TextMessage(<<"ASK_NAME_AGAIN">>), <<>>)
  ELSE
  LET s1 == [session EXCEPT !.guest_name = text]
      phone == OrElse(s1.phone_number, phone_number)
      regCalls == IF Truthy(phone)
                  THEN <<BackendCall("register_guest", phone, text, s1, o.reg)>> ELSE <<>>
      s2 == IF Truthy(phone) /\ o.reg.status \in {"created", "found"} /\ o.reg.hasGuest
            THEN [s1 EXCEPT !.guest_id = o.reg.guest_id, !.backend_token = o.reg.token,
                            !.funeral_unique_codes = o.reg.codes]
            ELSE s1
      menu(s, calls) ==
        Outcome(touch([s EXCEPT !.state = ConversationState.MENU], now), "upsert", FALSE,
                MenuMessage(s.guest_name), calls)
      invalid(s, calls) ==
        Outcome(touch([s EXCEPT !.state = ConversationState.WAIT_EVENT_CODE], now),
                "upsert", FALSE, TextMessage(<<"CODE_NOT_FOUND_ENTER_CODE">>), calls)
  IN
  IF ~Truthy(s2.event_code)
  THEN Outcome(touch([s2 EXCEPT !.state = ConversationState.WAIT_EVENT_CODE], now),
               "upsert", FALSE, TextMessage(WELCOME_TEXT), regCalls)
  ELSE IF Truthy(s2.backend_token) /\ _guest_has_event_code(s2, s2.event_code)
  THEN menu(AdoptCached(s2, _normalize_event_code(s2.event_code)), regCalls)
  ELSE IF Truthy(s2.backend_token)
  THEN LET v == CallWithAuthRetry("get_event_by_code", s2.event_code, s2, phone_number, o, now) IN
       IF v.result.status = "found" /\ v.result.has
       THEN menu(CacheCode(AdoptVerified(v.session, v.result),
                           _normalize_event_code(v.session.event_code)),
                 regCalls \o v.calls)
       ELSE invalid(v.session, regCalls \o v.calls)
  ELSE invalid(s2, regCalls)

\* state wait_name.
HandleWaitName(session, text, phone_number, o, now) ==
  IF text = ""
  THEN Outcome(session, "none", FALSE, TextMessage(<<"ASK_NAME_AGAIN">>), <<>>)
  ELSE
  LET s1 == [session EXCEPT !.guest_name = text]
      phone == OrElse(s1.phone_number, phone_number)
      regCalls == IF Truthy(phone)
                  THEN <<BackendCall("register_guest", phone, text, s1, o.reg)>> ELSE <<>>
      s2 == IF Truthy(phone) /\ o.reg.status \in {"created", "found"} /\ o.reg.hasGuest
            THEN [s1 EXCEPT !.guest_id = o.reg.guest_id, !.backend_token = o.reg.token,
                            !.funeral_unique_codes = o.reg.codes]
            ELSE s1
      menu(s, calls) ==
        Outcome(touch([s EXCEPT !.state = ConversationState.MENU], now), "upsert", FALSE,
                MenuMessage(s.guest_name), calls)
      invalid(s, calls) ==
        Outcome(touch([s EXCEPT !.event_code = NONE, !.event_id = NONE, !.event_name = NONE,
                                !.event_location = NONE, !.event_location_url = NONE,
                                !.state = ConversationState.WAIT_EVENT_CODE], now),
                "upsert", FALSE, TextMessage(<<"CODE_NOT_FOUND_ENTER_CODE">>), calls)
  IN
  IF ~Truthy(s2.event_code)
  THEN Outcome(touch([s2 EXCEPT !.state = ConversationState.WAIT_EVENT_CODE], now),
               "upsert", FALSE, TextMessage(WELCOME_TEXT), regCalls)
  ELSE IF Truthy(s2.backend_token) /\ _guest_has_event_code(s2, s2.event_code)
  THEN menu(AdoptCached(s2, _normalize_event_code(s2.event_code)), regCalls)
  ELSE IF Truthy(s2.backend_token)
  THEN LET v == CallWithAuthRetry("get_event_by_code", s2.event_code, s2, phone_number, o, now) IN
       IF v.result.status = "found" /\ v.result.has
       THEN menu(CacheCode(AdoptVerified(v.session, v.result),
                           _normalize_event_code(v.session.event_code)),
                 regCalls \o v.calls)
       ELSE invalid(v.session, regCalls \o v.calls)
  ELSE invalid(s2, regCalls)

HandleMenu(session, text, phone_number, o, now) ==
  LET choice == _normalize_choice(text) IN
  IF ~Truthy(session.guest_name)
  THEN Outcome(touch([session EXCEPT !.state = ConversationState.WAIT_NAME], now), "upsert",
               FALSE, TextMessage(<<"ASK_NAME_MENU">>), <<>>)
  ELSE IF choice \in {"menu", ""}
  THEN Outcome(session, "none", FALSE, MenuMessage(session.guest_name), <<>>)
  ELSE IF choice \in {"brochure", "donate", "location"} /\ ~Truthy(session.event_id)
  THEN Outcome(session, "none", FALSE, TextMessage(<<"MISSING_EVENT">>), <<>>)
  ELSE IF choice = "brochure"
  THEN LET v == CallWithAuthRetry("get_brochure", NONE, session, phone_number, o, now) IN
       IF v.result.status # "ready" \/ ~v.result.has
       THEN Outcome(v.session, IF v.refreshed THEN "upsert" ELSE "none", FALSE,
                    TextMessage(<<"SORRY_BROCHURE">> \o _menu_text(v.session.guest_name)),
                    v.calls)
       ELSE Outcome(touch(v.session, now), "upsert", FALSE,
                    OutgoingMessage(<<"BROCHURE">> \o _menu_text(v.session.guest_name),
                                    v.result.value, FALSE, NONE),
                    v.calls)
  ELSE IF choice = "donate"
  \* backend.create_donation_intent(session.event_id, session.guest_name) leaves
  \* out the required `amount` of BackendClient.create_donation_intent: the call
  \* raises TypeError before the backend is reached.
  THEN Raised(session, "none", <<>>)
  ELSE IF choice = "condolence"
  THEN Outcome(touch([session EXCEPT !.state = ConversationState.WAIT_CONDOLENCE], now),
               "upsert", FALSE, TextMessage(<<"ASK_CONDOLENCE">>), <<>>)
  ELSE IF choice = "location"
  THEN LET v == CallWithAuthRetry("get_funeral_location", NONE, session, phone_number, o, now) IN
       IF v.result.status = "ready" /\ v.result.has
       THEN Outcome(touch([v.session EXCEPT
                             !.event_location = OrElse(v.result.value, @),
                             !.event_location_url = OrElse(v.result.name, @)], now),
                    "upsert", FALSE,
                    TextMessage(<<"LOCATION">> \o _menu_text(v.session.guest_name)), v.calls)
       ELSE Outcome(v.session, IF v.refreshed THEN "upsert" ELSE "none", FALSE,
                    TextMessage(<<"SORRY_LOCATION">> \o _menu_text(v.session.guest_name)),
                    v.calls)
  ELSE Outcome(session, "none", FALSE,
               TextMessage(<<"USAGE">> \o _menu_text(session.guest_name)), <<>>)

\* A condolence prompt that submits without looking for the event and the
\* guest.
HandleWaitCondolenceUnguarded(session, text, phone_number, o, now) ==
  LET choice == _normalize_choice(text)
      toMenu(s) == touch([s EXCEPT !.state = ConversationState.MENU], now)
  IN
  IF choice = "back" \/ choice = "menu"
  THEN Outcome(toMenu(session), "upsert", FALSE,
               TextMessage(_menu_text(OrElse(session.guest_name, ""))), <<>>)
  ELSE IF text = ""
  THEN Outcome(session, "none", FALSE, TextMessage(<<"ASK_CONDOLENCE_AGAIN">>), <<>>)
  ELSE LET v == CallWithAuthRetry("submit_condolence", text, session, phone_number, o, now) IN
       Outcome(toMenu(v.session), "upsert", FALSE,
               TextMessage((IF v.result.status = "ok"
                            THEN <<"CONDOLENCE_SENT">> ELSE <<"CONDOLENCE_FAILED">>)
                             \o _menu_text(OrElse(v.session.guest_name, ""))),
               v.calls)

\* A condolence prompt that is left only when the condolence was taken.
HandleWaitCondolenceUntilSent(session, text, phone_number, o, now) ==
  LET choice == _normalize_choice(text)
      toMenu(s) == touch([s EXCEPT !.state = ConversationState.MENU], now)
  IN
  IF ~Truthy(session.guest_name) \/ ~Truthy(session.event_id)
  THEN Outcome(toMenu(session), "upsert", FALSE,
               TextMessage(<<"MISSING_CONTEXT">>
                             \o _menu_text(OrElse(session.guest_name, ""))), <<>>)
  ELSE IF ~Truthy(session.guest_id)
  THEN Outcome(toMenu(session), "upsert", FALSE,
               TextMessage(<<"NO_GUEST_PROFILE">> \o _menu_text(session.guest_name)), <<>>)
  ELSE IF choice = "back" \/ choice = "menu"
  THEN Outcome(toMenu(session), "upsert", FALSE,
               TextMessage(_menu_text(session.guest_name)), <<>>)
  ELSE IF text = ""
  THEN Outcome(session, "none", FALSE, TextMessage(<<"ASK_CONDOLENCE_AGAIN">>), <<>>)
  ELSE LET v == CallWithAuthRetry("submit_condolence", text, session, phone_number, o, now) IN
       Outcome(IF v.result.status = "ok" THEN toMenu(v.session) ELSE touch(v.session, now),
               "upsert", FALSE,
               TextMessage((IF v.result.status = "ok"
                            THEN <<"CONDOLENCE_SENT">> ELSE <<"CONDOLENCE_FAILED">>)
                             \o _menu_text(v.session.guest_name)),
               v.calls)

\* state wait_condolence.
HandleWaitCondolence(session, text, phone_number, o, now) ==
  LET choice == _normalize_choice(text)
      toMenu(s) == touch([s EXCEPT !.state = ConversationState.MENU], now)
  IN
  IF ~Truthy(session.guest_name) \/ ~Truthy(session.event_id)
  THEN Outcome(toMenu(session), "upsert", FALSE,
               TextMessage(<<"MISSING_CONTEXT">>
                             \o _menu_text(OrElse(session.guest_name, ""))), <<>>)
  ELSE IF ~Truthy(session.guest_id)
  THEN Outcome(toMenu(session), "upsert", FALSE,
               TextMessage(<<"NO_GUEST_PROFILE">> \o _menu_text(session.guest_name)), <<>>)
  ELSE IF choice = "back" \/ choice = "menu"
  THEN Outcome(toMenu(session), "upsert", FALSE,
               TextMessage(_menu_text(session.guest_name)), <<>>)
  ELSE IF text = ""
  THEN Outcome(session, "none", FALSE, TextMessage(<<"ASK_CONDOLENCE_AGAIN">>), <<>>)
  ELSE LET v == CallWithAuthRetry("submit_condolence", text, session, phone_number, o, now) IN
       Outcome(toMenu(v.session), "upsert", FALSE,
               TextMessage((IF v.result.status = "ok"
                            THEN <<"CONDOLENCE_SENT">> ELSE <<"CONDOLENCE_FAILED">>)
                             \o _menu_text(v.session.guest_name)),
               v.calls)

\* handle_incoming_message after `session = store.get(sender_key)`: `loaded` is
\* <<>> for None or <<session>>.
handle_incoming_message(sender_key, incoming_text, loaded, o, now) ==
  LET text == normalize_text(incoming_text)
      choice == _normalize_choice(text)
      phone_number == _normalize_phone(sender_key)
  IN
  IF loaded = <<>> THEN HandleFresh(phone_number, o, now)
  ELSE
  LET session == loaded[1] IN
  IF choice = "restart" THEN HandleRestart(session, phone_number, o, now)
  ELSE IF choice = "help" THEN HandleHelp(session, now)
  ELSE IF session.state = ConversationState.WAIT_EVENT_CODE
  THEN HandleWaitEventCode(session, text, phone_number, o, now)
  ELSE IF session.state = ConversationState.WAIT_NAME
  THEN HandleWaitName(session, text, phone_number, o, now)
  ELSE IF session.state = ConversationState.MENU
  THEN HandleMenu(session, text, phone_number, o, now)
  ELSE IF session.state = ConversationState.WAIT_CONDOLENCE
  THEN HandleWaitCondolence(session, text, phone_number, o, now)
  ELSE Outcome(session, "clear", FALSE, TextMessage(WELCOME_TEXT), <<>>)

\* The backend results that can matter to a run from `loaded` on `incoming_text`:
\* a call the run cannot reach gets the one placeholder result.
OraclesFor(sender_key, incoming_text, loaded) ==
  LET text == normalize_text(incoming_text)
      choice == _normalize_choice(text)
      phone_number == _normalize_phone(sender_key)
      state == IF loaded = <<>> \/ choice = "restart" THEN "fresh"
               ELSE IF choice = "help" THEN "help" ELSE loaded[1].state
      session == IF loaded = <<>> THEN Session("", NONE) ELSE loaded[1]
      firsts ==
        CASE state = ConversationState.WAIT_EVENT_CODE
               /\ text # "" /\ ~_is_greeting(text) /\ Truthy(session.backend_token)
               /\ ~_guest_has_event_code(session, text) -> EventResults(text)
          [] state = ConversationState.WAIT_NAME /\ text # "" /\ Truthy(session.event_code)
               -> EventResults(session.event_code) \cup {NoOpResult}
          [] state = ConversationState.MENU /\ Truthy(session.guest_name)
               /\ Truthy(session.event_id) /\ choice = "brochure" -> BrochureResults
          [] state = ConversationState.MENU /\ Truthy(session.guest_name)
               /\ Truthy(session.event_id) /\ choice = "location" -> LocationResults
          [] state = ConversationState.WAIT_CONDOLENCE /\ Truthy(session.guest_name)
               /\ Truthy(session.event_id) /\ Truthy(session.guest_id)
               /\ choice \notin {"back", "menu"} /\ text # "" -> CondolenceResults
          [] OTHER -> {NoOpResult}
      regs == IF state = ConversationState.WAIT_NAME /\ text # ""
                 /\ Truthy(OrElse(session.phone_number, phone_number))
              THEN RegisterResults ELSE {NoGuestResult}
      isAuth(f) == f.status = "error" /\ _looks_like_auth_error(f.error)
      guestsFor(f) ==
        IF (state = "fresh" /\ phone_number # "")
             \/ (isAuth(f) /\ Truthy(OrElse(session.phone_number, phone_number)))
        THEN CheckResults ELSE {NoGuestResult}
      retriesFor(f, g) ==
        IF isAuth(f) /\ g.status = "found" /\ g.hasGuest THEN firsts \ {NoOpResult}
        ELSE {NoOpResult}
  IN UNION { UNION { { Oracle(g, r, f, y) : r \in regs, y \in retriesFor(f, g) }
                     : g \in guestsFor(f) } : f \in firsts }

\* Every outcome a run of the handler can have, over the backend's results.
Outcomes(sender_key, incoming_text, loaded, now) ==
  { handle_incoming_message(sender_key, incoming_text, loaded, o, now) :
      o \in OraclesFor(sender_key, incoming_text, loaded) }

\* -------------------------------------------------------------- session store

\* The clock stops at MaxTime ticks; a session lives SessionTtlTicks ticks after
\* its last upsert (SessionStore._ttl_seconds, in ticks).
MaxTime == 1
SessionTtlTicks == 2

\* An expiry that lets the entry live through the tick of its expires_at.
ExpiredAfter(entry, now) == entry # <<>> /\ now > entry[1].updated_at + SessionTtlTicks

\* A store entry is <<>> (no entry) or <<session>>; the entry's expires_at is
\* session.updated_at + ttl, as upsert sets it.
Expired(entry, now) == entry # <<>> /\ now >= entry[1].updated_at + SessionTtlTicks

\* SessionStore.get: the live session, or None with an expired entry evicted.
\* [entry, session].
StoreGet(entry, now) ==
  IF entry = <<>> \/ Expired(entry, now)
  THEN [entry |-> <<>>, session |-> <<>>]
  ELSE [entry |-> entry, session |-> entry]

\* The entry after a run of the handler that loaded it as `got`.
StoreAfter(got, outcome) ==
  CASE outcome.effect = "upsert" -> <<outcome.session>>
    [] outcome.effect = "clear" -> <<>>
    [] OTHER -> got.entry

\* SessionStore.upsert(key, session): the session is touched and stored.
StoreUpsert(session, now) == <<touch(session, now)>>

\* SessionStore.clear(key).
StoreClear == <<>>

\* ------------------------------------------------------------------ variables

VARIABLES
  now,          \* time.time(), in ticks
  store,        \* SESSION_STORE: sender key -> entry
  hSender,      \* HSpec: the sender whose conversation is followed
  nMsgs,        \* HSpec: the messages handled so far
  last,         \* HSpec: <<>> or <<the last run: text, loaded session, outcome, time>>
  redisOn,      \* REDIS_URL is set: _REDIS, _REDIS_DEDUPE and the Redis session store
  redisSeen,    \* the Redis meta_seen keys: message id -> expiry (0: no key)
  metaSeen,     \* _META_SEEN: message id -> expiry (0: no entry)
  permits,      \* the free permits of _INFLIGHT_SEM
  queue,        \* the executor's work queue of submitted tasks
  req,          \* the webhook request threads
  wk,           \* the pool's worker threads
  senderLocks,  \* _SENDER_LOCKS: sender key -> <<>> or <<[lock, ts]>>
  lockCount,    \* the threading.Lock objects created so far
  held,         \* the locks now held
  nDeliv,       \* the webhook deliveries made so far
  idLog,        \* history, per message id: the de-dupe verdicts and submissions
  nAdmitted,    \* history: the permits acquired so far
  nReleased,    \* history: the tasks ended so far, those that raised, release()'s ValueErrors
  processed,    \* LSpec history, per sender: the texts whose processing has ended
  lease         \* the Redis sender-lock keys: sender key -> <<>> or <<[token, expires]>>

\* What the actions of the webhook and of the pool leave as it is.
hOnly == <<hSender, nMsgs, last, lease>>

tally == <<nAdmitted, nReleased>>

dvars == <<redisOn, redisSeen, metaSeen, permits, queue, req, wk, senderLocks,
           lockCount, held, nDeliv, idLog, nAdmitted, nReleased, processed>>

hvars == <<now, store, hOnly, dvars>>

vars == <<now, store, hOnly, dvars>>

\* HSpec follows a conversation of at most MaxMessages messages.
MaxMessages == 4

\* The sender keys: two phone numbers and one key without digits.
Senders == {"233201", "233202", "anon"}

\* The incoming texts of the model. The menu replies "2", "3", "4", "0" and
\* "back" are sent only by a sender whose session shows the menu or the
\* condolence prompt; elsewhere "1" stands for a menu reply sent out of place.
Texts == {"", "hi", "restart", "help", "abc", " abc ", "Ama", "1"}
MenuTexts == {"2", "3", "4", "0", "back"}

TextsFor(loaded) ==
  IF loaded # <<>>
       /\ loaded[1].state \in {ConversationState.MENU, ConversationState.WAIT_CONDOLENCE}
  THEN Texts \cup MenuTexts ELSE Texts

\* ------------------------------------------------------- dispatcher values

\* The pool has _WORKER_THREADS threads and the semaphore _MAX_INFLIGHT permits
\* (WEBHOOK_WORKER_THREADS <= 2 and WEBHOOK_MAX_INFLIGHT <= 2 give 2 and 2).
_WORKER_THREADS == 2
_MAX_INFLIGHT == 2

Workers == 1.._WORKER_THREADS

\* The webhook requests served at once. Idle request threads are alike, and so
\* are idle pool threads: the first idle one takes the delivery or the task.
Requests == {1, 2}

FirstIdle(threads, t) == \A u \in DOMAIN threads : u < t => threads[u].pc # "idle"

\* Spec makes at most MaxDeliveries webhook deliveries.
MaxDeliveries == 4

\* _META_SEEN_TTL_SECONDS and _SENDER_LOCKS_TTL_SECONDS in ticks, and the size of
\* _SENDER_LOCKS above which _sender_lock sweeps it (500 in the source, scaled
\* to the two senders of Spec). SESSION_TTL_SECONDS is set above the sender
\* locks' hour, as SessionTtlTicks > LockTtlTicks.
_META_SEEN_TTL_TICKS == 1
_SENDER_LOCKS_TTL_TICKS == 1
SenderLocksSweepAbove == 1

\* The messages the webhook delivers in Spec, as (from_wa, incoming_text,
\* msg_id): one with an id, delivered any number of times, and one without,
\* which is never de-duplicated.
MsgIds == {"m1"}

Messages ==
  { [sender |-> "233201", text |-> "abc", id |-> "m1"],
    [sender |-> "233201", text |-> "abc", id |-> ""] }

NoMsg == [sender |-> "", text |-> "", id |-> ""]

\* A submitted task: _process_meta_message_task(from_wa, incoming_text).
Task(m) == [sender |-> m.sender, text |-> m.text]

IdleRequest == [pc |-> "idle", msg |-> NoMsg]

\* A worker: its position, its task, the lock _sender_lock returned, the
\* session object handle_incoming_message loaded ("none": None, "alias": the
\* object the local store holds, "own": an object of its own, obj) and whether
\* the processing raised.
IdleWorker ==
  [pc |-> "idle", sender |-> "", text |-> "", lock |-> 0,
   ref |-> "none", obj |-> <<>>, raised |-> FALSE]

NoIdLog ==
  [first |-> -1, falses |-> 0, fellBack |-> FALSE, submits |-> 0,
   dropped |-> FALSE, refused |-> FALSE]

\* The dispatcher at start-up.
DispatcherInit ==
  /\ redisSeen = [i \in MsgIds |-> 0]
  /\ metaSeen = [i \in MsgIds |-> 0]
  /\ permits = _MAX_INFLIGHT
  /\ queue = <<>>
  /\ req = [r \in Requests |-> IdleRequest]
  /\ wk = [w \in Workers |-> IdleWorker]
  /\ senderLocks = [k \in Senders |-> <<>>]
  /\ lockCount = 0
  /\ held = {}
  /\ nDeliv = 0
  /\ idLog = [i \in MsgIds |-> NoIdLog]
  /\ nAdmitted = 0
  /\ nReleased = [tasks |-> 0, raised |-> 0, errors |-> 0]
  /\ processed = [k \in Senders |-> <<>>]
  /\ lease = [k \in Senders |-> <<>>]

\* --------------------------------------------- HSpec: one sender, in sequence

HInit ==
  /\ now = 0
  /\ store = [k \in Senders |-> <<>>]
  /\ hSender \in {"233201", "anon"}
  /\ nMsgs = 0
  /\ last = <<>>
  /\ redisOn = FALSE
  /\ DispatcherInit

\* One message of hSender handled at time t, from store.get to the return.
HandleAt(t) ==
  /\ nMsgs' = nMsgs + 1
  /\ now' = t
  /\ LET got == StoreGet(store[hSender], t) IN
    \E text \in TextsFor(got.session) :
    \E outcome \in Outcomes(hSender, text, got.session, t) :
      /\ store' = [store EXCEPT ![hSender] = StoreAfter(got, outcome)]
      /\ last' = <<[text |-> text, loaded |-> got.session, outcome |-> outcome,
                    at |-> t]>>
      /\ UNCHANGED <<hSender, lease, dvars>>

\* One message of hSender handled now.
HandleMessage == nMsgs < MaxMessages /\ HandleAt(now)

Tick ==
  /\ now < MaxTime
  /\ now' = now + 1
  /\ UNCHANGED <<store, hOnly, dvars>>

HNext == HandleMessage

HSpec == HInit /\ [][HNext]_hvars

\* ------------------------------------------------ Spec: the webhook's ledger

\* A Redis ledger whose SET lacks NX: the key is set anew by every call.
RedisSeenWithoutNx(keys, msg_id, t) ==
  [keys |-> [keys EXCEPT ![msg_id] = t + _META_SEEN_TTL_TICKS], seen |-> FALSE]

\* RedisDedupe.seen: SET key NX EX ttl; seen unless the key was set by this call.
RedisSeen(keys, msg_id, t) ==
  IF keys[msg_id] > t
  THEN [keys |-> keys, seen |-> TRUE]
  ELSE [keys |-> [keys EXCEPT ![msg_id] = t + _META_SEEN_TTL_TICKS], seen |-> FALSE]

\* An in-memory ledger that never enters the id it has not seen.
LocalSeenUnrecorded(ledger, msg_id, t) ==
  [ledger |-> [k \in MsgIds |-> IF ledger[k] <= t THEN 0 ELSE ledger[k]],
   seen |-> ledger[msg_id] > t]

\* The in-memory ledger of _meta_seen: the expired entries are swept, then the
\* id is seen if it has an entry and is entered otherwise.
LocalSeen(ledger, msg_id, t) ==
  LET swept == [k \in MsgIds |-> IF ledger[k] <= t THEN 0 ELSE ledger[k]] IN
  IF swept[msg_id] # 0
  THEN [ledger |-> swept, seen |-> TRUE]
  ELSE [ledger |-> [swept EXCEPT ![msg_id] = t + _META_SEEN_TTL_TICKS], seen |-> FALSE]

\* A _meta_seen that reports the id as seen when the Redis call raises.
_meta_seenClosedOnError(msg_id, configured, redisRaises, keys, ledger, t) ==
  IF configured /\ redisRaises
  THEN [redis |-> keys, local |-> ledger, seen |-> TRUE, fellBack |-> TRUE]
  ELSE IF configured
  THEN LET r == RedisSeen(keys, msg_id, t) IN
       [redis |-> r.keys, local |-> ledger, seen |-> r.seen, fellBack |-> FALSE]
  ELSE LET l == LocalSeen(ledger, msg_id, t) IN
       [redis |-> keys, local |-> l.ledger, seen |-> l.seen, fellBack |-> FALSE]

\* _meta_seen(msg_id) for a non-empty id. With Redis configured the verdict is
\* Redis's unless the call raises (redisRaises), and then the in-memory
\* ledger's. [redis, local, seen, fellBack].
_meta_seen(msg_id, configured, redisRaises, keys, ledger, t) ==
  IF configured /\ ~redisRaises
  THEN LET r == RedisSeen(keys, msg_id, t) IN
       [redis |-> r.keys, local |-> ledger, seen |-> r.seen, fellBack |-> FALSE]
  ELSE LET l == LocalSeen(ledger, msg_id, t) IN
       [redis |-> keys, local |-> l.ledger, seen |-> l.seen, fellBack |-> configured]

\* ------------------------------------------------- Spec: the webhook request

\* meta_webhook, the loop's first step for a delivered message: a message with
\* an id that _meta_seen reports is skipped; any other goes on to the permit.
WebhookDedupe(r) ==
  /\ req[r].pc = "idle"
  /\ FirstIdle(req, r)
  /\ nDeliv < MaxDeliveries
  /\ nDeliv' = nDeliv + 1
  /\ \E m \in Messages :
       IF m.id = ""
       THEN /\ req' = [req EXCEPT ![r] = [pc |-> "admit", msg |-> m]]
            /\ UNCHANGED <<redisSeen, metaSeen, idLog>>
       ELSE \E redisRaises \in (IF redisOn THEN BOOLEAN ELSE {FALSE}) :
            LET chk == _meta_seen(m.id, redisOn, redisRaises, redisSeen, metaSeen, now)
                log == idLog[m.id]
            IN /\ redisSeen' = chk.redis
               /\ metaSeen' = chk.local
               /\ idLog' = [idLog EXCEPT ![m.id] =
                    [log EXCEPT !.first = IF log.first < 0 THEN now ELSE log.first,
                                !.falses = IF chk.seen THEN @ ELSE @ + 1,
                                !.fellBack = @ \/ chk.fellBack,
                                !.refused = @ \/ (chk.seen /\ log.dropped /\ permits > 0)]]
               /\ IF chk.seen
                  THEN req' = req
                  ELSE req' = [req EXCEPT ![r] = [pc |-> "admit", msg |-> m]]
  /\ UNCHANGED <<now, store, hOnly, redisOn, permits, queue, wk, senderLocks,
                 lockCount, held, processed, tally>>

\* A webhook that submits the message although no permit is free.
WebhookAdmitUnbounded(r) ==
  /\ req[r].pc = "admit"
  /\ permits' = IF permits > 0 THEN permits - 1 ELSE permits
  /\ nAdmitted' = nAdmitted + 1
  /\ req' = [req EXCEPT ![r].pc = "submit"]
  /\ UNCHANGED <<now, store, hOnly, redisOn, redisSeen, metaSeen, queue, wk,
                 senderLocks, lockCount, held, nDeliv, idLog, nReleased, processed>>

\* _INFLIGHT_SEM.acquire(blocking=False): a permit is taken, or the message is
\* dropped and the loop goes on.
WebhookAdmit(r) ==
  /\ req[r].pc = "admit"
  /\ IF permits > 0
     THEN /\ permits' = permits - 1
          /\ nAdmitted' = nAdmitted + 1
          /\ req' = [req EXCEPT ![r].pc = "submit"]
          /\ idLog' = idLog
     ELSE /\ permits' = permits
          /\ nAdmitted' = nAdmitted
          /\ req' = [req EXCEPT ![r] = IdleRequest]
          /\ idLog' = IF req[r].msg.id = "" THEN idLog
                      ELSE [idLog EXCEPT ![req[r].msg.id].dropped = TRUE]
  /\ UNCHANGED <<now, store, hOnly, redisOn, redisSeen, metaSeen, queue, wk,
                 senderLocks, lockCount, held, nDeliv, nReleased, processed>>

\* _get_executor().submit(_process_meta_message_task, from_wa, incoming_text).
WebhookSubmit(r) ==
  /\ req[r].pc = "submit"
  /\ queue' = Append(queue, Task(req[r].msg))
  /\ req' = [req EXCEPT ![r] = IdleRequest]
  /\ idLog' = IF req[r].msg.id = "" THEN idLog
              ELSE [idLog EXCEPT ![req[r].msg.id].submits = @ + 1]
  /\ UNCHANGED <<now, store, hOnly, redisOn, redisSeen, metaSeen, permits, wk,
                 senderLocks, lockCount, held, nDeliv, processed, tally>>

\* --------------------------------------------------- Spec: the pool worker

\* _sender_lock(key) at time t: the key's lock, created if the registry has
\* none, with its timestamp renewed; a registry of more than
\* SenderLocksSweepAbove entries then loses every entry not renewed for
\* _SENDER_LOCKS_TTL_TICKS, whether or not its lock is held or awaited.
\* [locks, lock, count].
_sender_lock(locks, key, t, count) ==
  LET item == locks[key]
      lock == IF item = <<>> THEN count + 1 ELSE item[1].lock
      put == [locks EXCEPT ![key] = <<[lock |-> lock, ts |-> t]>>]
      size == Cardinality({k \in DOMAIN put : put[k] # <<>>})
      swept == [k \in DOMAIN put |->
                  IF put[k] # <<>> /\ put[k][1].ts <= t - _SENDER_LOCKS_TTL_TICKS
                  THEN <<>> ELSE put[k]]
  IN [locks |-> IF size > SenderLocksSweepAbove THEN swept ELSE put,
      lock |-> lock,
      count |-> IF item = <<>> THEN count + 1 ELSE count]

\* A pool thread takes the next task and _handle_one_meta_message obtains the
\* sender's lock object.
WorkerStart(w) ==
  /\ wk[w].pc = "idle"
  /\ FirstIdle(wk, w)
  /\ queue # <<>>
  /\ LET task == Head(queue)
         got == _sender_lock(senderLocks, task.sender, now, lockCount)
     IN /\ queue' = Tail(queue)
        /\ senderLocks' = got.locks
        /\ lockCount' = got.count
        /\ wk' = [wk EXCEPT ![w] = [IdleWorker EXCEPT !.pc = "acquire",
                     !.sender = task.sender, !.text = task.text, !.lock = got.lock]]
  /\ UNCHANGED <<now, store, hOnly, redisOn, redisSeen, metaSeen, permits, req,
                 held, nDeliv, idLog, processed, tally>>

\* A thread that enters the body without taking the lock object.
WorkerAcquireSkipped(w) ==
  /\ wk[w].pc = "acquire"
  /\ wk' = [wk EXCEPT ![w].pc = "load"]
  /\ UNCHANGED <<now, store, hOnly, redisOn, redisSeen, metaSeen, permits, queue,
                 req, senderLocks, lockCount, held, nDeliv, idLog, processed, tally>>

\* with local_lock: the thread blocks until the lock object is free.
WorkerAcquire(w) ==
  /\ wk[w].pc = "acquire"
  /\ wk[w].lock \notin held
  /\ held' = held \cup {wk[w].lock}
  /\ wk' = [wk EXCEPT ![w].pc = "load"]
  /\ UNCHANGED <<now, store, hOnly, redisOn, redisSeen, metaSeen, permits, queue,
                 req, senderLocks, lockCount, nDeliv, idLog, processed, tally>>

\* The workers other than w that hold the object the local store has for key.
Aliasing(w, key) ==
  {v \in Workers \ {w} : wk[v].pc = "run" /\ wk[v].sender = key /\ wk[v].ref = "alias"}

\* The workers after the store stopped holding the object `entry` of key:
\* those that loaded it keep it as an object of their own.
Detach(workers, w, key, entry) ==
  [v \in Workers |->
     IF v \in Aliasing(w, key)
     THEN [workers[v] EXCEPT !.ref = "own", !.obj = entry]
     ELSE workers[v]]

\* handle_incoming_message begins: session = store.get(sender_key). The local
\* store hands out the object it holds; the Redis store a copy, and its call
\* may raise.
WorkerLoad(w) ==
  /\ wk[w].pc = "load"
  /\ LET key == wk[w].sender
         got == StoreGet(store[key], now)
         ref == IF got.session = <<>> THEN "none" ELSE IF redisOn THEN "own" ELSE "alias"
         obj == IF redisOn THEN got.session ELSE <<>>
         others == IF got.entry = store[key] THEN wk ELSE Detach(wk, w, key, store[key])
     IN \/ /\ store' = [store EXCEPT ![key] = got.entry]
           /\ wk' = [others EXCEPT ![w] = [wk[w] EXCEPT !.pc = "run", !.ref = ref, !.obj = obj]]
           /\ processed' = processed
        \/ /\ redisOn
           /\ store' = store
           /\ wk' = [wk EXCEPT ![w] = [wk[w] EXCEPT !.pc = "unlock", !.raised = TRUE]]
           /\ processed' = [processed EXCEPT ![key] = Append(@, wk[w].text)]
  /\ UNCHANGED <<now, hOnly, redisOn, redisSeen, metaSeen, permits, queue, req,
                 senderLocks, lockCount, held, nDeliv, idLog, tally>>

\* In Spec the backend is out of reach: check_guest_registration finds no guest
\* or fails, and every other call returns an error that is not an
\* authorization error. (HSpec draws the backend's answers in full.)
BackendDown(o) ==
  /\ o.guest.status \in {"not_found", "error"}
  /\ o.reg.status \in {"not_found", "error"}
  /\ o.first = NoOpResult \/ (o.first.status = "error" /\ o.first.error = OtherErrorText)
  /\ o.retry = NoOpResult

\* The outcomes of a run of the handler in Spec.
RunOutcomes(sender_key, incoming_text, loaded, t) ==
  { handle_incoming_message(sender_key, incoming_text, loaded, o, t) :
      o \in {x \in OraclesFor(sender_key, incoming_text, loaded) : BackendDown(x)} }

\* The session object the worker's run of the handler works on.
Loaded(w) ==
  CASE wk[w].ref = "none" -> <<>>
    [] wk[w].ref = "alias" -> store[wk[w].sender]
    [] OTHER -> wk[w].obj

\* The rest of handle_incoming_message, then SESSION_STORE.get(from_wa) and the
\* reply's sending, to the end of the with block; or the handler raises.
WorkerRun(w) ==
  /\ wk[w].pc = "run"
  /\ LET key == wk[w].sender IN
     \E outcome \in RunOutcomes(key, wk[w].text, Loaded(w), now) :
       LET mine == wk[w].ref = "alias" /\ ~outcome.fresh
           written == CASE outcome.raised -> store[key]
                        [] outcome.effect = "upsert" -> <<outcome.session>>
                        [] outcome.effect = "clear" -> <<>>
                        [] OTHER -> store[key]
           after == IF outcome.raised THEN written ELSE StoreGet(written, now).entry
           kept == after # <<>> /\ (written = store[key] \/ mine)
           others == IF kept THEN wk ELSE Detach(wk, w, key, store[key])
       IN /\ store' = [store EXCEPT ![key] = after]
          /\ wk' = [others EXCEPT ![w] = [wk[w] EXCEPT !.pc = "unlock", !.ref = "none",
                       !.obj = <<>>, !.raised = outcome.raised]]
          /\ processed' = [processed EXCEPT ![key] = Append(@, wk[w].text)]
  /\ UNCHANGED <<now, hOnly, redisOn, redisSeen, metaSeen, permits, queue, req,
                 senderLocks, lockCount, held, nDeliv, idLog, tally>>

\* The with block ends (normally or by the exception): the lock is released.
WorkerUnlock(w) ==
  /\ wk[w].pc = "unlock"
  /\ held' = held \ {wk[w].lock}
  /\ wk' = [wk EXCEPT ![w].pc = "release"]
  /\ UNCHANGED <<now, store, hOnly, redisOn, redisSeen, metaSeen, permits, queue,
                 req, senderLocks, lockCount, nDeliv, idLog, processed, tally>>

\* A release() that gives no permit back.
SemReleaseLost(free) == [free |-> free, error |-> FALSE]

\* _INFLIGHT_SEM.release() on a BoundedSemaphore: one permit more, or
\* ValueError with the count unchanged if all permits are free already.
SemRelease(free) ==
  IF free < _MAX_INFLIGHT
  THEN [free |-> free + 1, error |-> FALSE]
  ELSE [free |-> free, error |-> TRUE]

\* A task that releases its permit after the processing instead of in a finally
\* clause: nothing is released when the processing raised.
PermitsAfterTaskUnlessRaised(free, raised) ==
  IF raised THEN [free |-> free, error |-> FALSE]
  ELSE IF free < _MAX_INFLIGHT THEN [free |-> free + 1, error |-> FALSE]
  ELSE [free |-> free, error |-> TRUE]

\* The permits after _process_meta_message_task's try/except/finally: the
\* finally clause releases whether or not the processing raised.
PermitsAfterTask(free, raised) == SemRelease(free)

\* _process_meta_message_task ends: the exception, if any, is logged and the
\* permit released.
WorkerRelease(w) ==
  /\ wk[w].pc = "release"
  /\ LET rel == PermitsAfterTask(permits, wk[w].raised) IN
       /\ permits' = rel.free
       /\ nReleased' = [tasks |-> nReleased.tasks + 1,
                        raised |-> nReleased.raised + (IF wk[w].raised THEN 1 ELSE 0),
                        errors |-> nReleased.errors + (IF rel.error THEN 1 ELSE 0)]
  /\ wk' = [wk EXCEPT ![w] = IdleWorker]
  /\ UNCHANGED <<now, store, hOnly, redisOn, redisSeen, metaSeen, queue, req,
                 senderLocks, lockCount, held, nDeliv, idLog, nAdmitted, processed>>

\* ------------------------------------ Spec: the webhook, step by step

\* A pool thread takes the next task.
WorkerTake(w) ==
  /\ wk[w].pc = "idle"
  /\ FirstIdle(wk, w)
  /\ queue # <<>>
  /\ LET task == Head(queue) IN
       /\ queue' = Tail(queue)
       /\ wk' = [wk EXCEPT ![w] = [IdleWorker EXCEPT !.pc = "handle",
                    !.sender = task.sender, !.text = task.text]]
  /\ UNCHANGED <<now, store, hOnly, redisOn, redisSeen, metaSeen, permits, req,
                 senderLocks, lockCount, held, nDeliv, idLog, processed, tally>>

\* _handle_one_meta_message from its first line to its last, in one step: the
\* sender's lock is obtained, taken and released, and in between the handler
\* runs (or the Redis store's get raises), the session is read again and the
\* reply is sent.
WorkerHandle(w) ==
  /\ wk[w].pc = "handle"
  /\ LET key == wk[w].sender
         lk == _sender_lock(senderLocks, key, now, lockCount)
         got == StoreGet(store[key], now)
     IN /\ lk.lock \notin held
        /\ senderLocks' = lk.locks
        /\ lockCount' = lk.count
        /\ \/ \E outcome \in RunOutcomes(key, wk[w].text, got.session, now) :
                /\ store' = [store EXCEPT ![key] =
                     IF outcome.raised THEN got.entry
                     ELSE StoreGet(StoreAfter(got, outcome), now).entry]
                /\ wk' = [wk EXCEPT ![w].pc = "release", ![w].raised = outcome.raised]
           \/ /\ redisOn
              /\ store' = store
              /\ wk' = [wk EXCEPT ![w].pc = "release", ![w].raised = TRUE]
  /\ UNCHANGED <<now, hOnly, redisOn, redisSeen, metaSeen, permits, queue, req,
                 held, nDeliv, idLog, processed, tally>>

Init ==
  /\ now = 0
  /\ store = [k \in Senders |-> <<>>]
  /\ hSender = "233201"
  /\ nMsgs = 0
  /\ last = <<>>
  /\ redisOn \in BOOLEAN
  /\ DispatcherInit

Next ==
  \/ \E r \in Requests : WebhookDedupe(r)
  \/ \E r \in Requests : WebhookAdmit(r)
  \/ \E r \in Requests : WebhookSubmit(r)
  \/ \E w \in Workers : WorkerTake(w)
  \/ \E w \in Workers : WorkerHandle(w)
  \/ \E w \in Workers : WorkerRelease(w)
  \/ Tick

Spec == Init /\ [][Next]_vars

\* A thread that can take a step takes it: a request that passed the ledger
\* goes on to the semaphore and the executor, and a pool thread takes a queued
\* task, runs it (the backend and Meta calls are bounded by timeouts) and ends
\* it. No such step, once possible, is made impossible except by another one.
Progress ==
  \/ \E r \in Requests : WebhookAdmit(r) \/ WebhookSubmit(r)
  \/ \E w \in Workers : WorkerTake(w) \/ WorkerHandle(w) \/ WorkerRelease(w)

\* FairSpec is Spec within one tick of the clock, which no permit depends on,
\* with the threads' steps taken when they can be.
FairNext ==
  \/ \E r \in Requests : WebhookDedupe(r)
  \/ Progress

FairSpec == Init /\ [][FairNext]_vars /\ WF_vars(Progress)

\* ------------------------------------- LSpec: the worker, step by step

\* The messages of LSpec carry no id, and a webhook request handles one from
\* the permit to the submission in one step.
MaxTasks == 3

LMessages ==
  { [sender |-> "233201", text |-> "abc", id |-> ""],
    [sender |-> "233202", text |-> "abc", id |-> ""] }

Deliver ==
  /\ nDeliv < MaxTasks
  /\ nDeliv' = nDeliv + 1
  /\ \E m \in LMessages :
       IF permits > 0
       THEN /\ permits' = permits - 1
            /\ nAdmitted' = nAdmitted + 1
            /\ queue' = Append(queue, Task(m))
       ELSE UNCHANGED <<permits, nAdmitted, queue>>
  /\ UNCHANGED <<now, store, hOnly, redisOn, redisSeen, metaSeen, req, wk,
                 senderLocks, lockCount, held, idLog, nReleased, processed>>

LNext ==
  \/ Deliver
  \/ \E w \in Workers : WorkerStart(w)
  \/ \E w \in Workers : WorkerAcquire(w)
  \/ \E w \in Workers : WorkerLoad(w)
  \/ \E w \in Workers : WorkerRun(w)
  \/ \E w \in Workers : WorkerUnlock(w)
  \/ \E w \in Workers : WorkerRelease(w)
  \/ Tick

LSpec == Init /\ [][LNext]_vars

\* ------------------------------------------------------------------ claims

\* The backend calls of the last run, and the positions of some of them.
LastCalls == IF last = <<>> THEN <<>> ELSE last[1].outcome.calls

RetriedOps == {"get_event_by_code", "get_brochure", "get_funeral_location", "submit_condolence"}

CallsOf(ops) == {i \in 1..Len(LastCalls) : LastCalls[i].op \in ops}

\* The run handled a message of an existing session, not a restart.
LastHadSession ==
  last # <<>> /\ last[1].loaded # <<>> /\ _normalize_choice(last[1].text) # "restart"

\* C9 (as claimed): no run invokes get_event_by_code for a code that is, at the
\* moment of the call, among the session's funeral_unique_codes under trimmed
\* upper-case comparison, the retry after a guest-auth refresh included.
C9_VerifyNeverForKnownCode ==
  \A i \in CallsOf({"get_event_by_code"}) : ~CodesHave(LastCalls[i].codes, LastCalls[i].arg)

\* C10 (as claimed): in a run, a backend call whose result is an authorization
\* error is followed by exactly one guest-auth refresh and exactly one retry of
\* the same call.
C10_AuthErrorAlwaysRefreshedAndRetried ==
  \A i \in CallsOf(RetriedOps) :
    (LastCalls[i].auth_error /\ \A j \in 1..(i - 1) : LastCalls[j].op # LastCalls[i].op)
      => /\ Cardinality({j \in CallsOf({"check_guest_registration"}) : j > i}) = 1
         /\ Cardinality(CallsOf({LastCalls[i].op})) = 2

\* C10 (amended): in a run on an existing session, one of the four retried
\* operations is invoked at most twice and the guest is refreshed at most once;
\* the operation is invoked a second time exactly when its first result was an
\* authorization error and the refresh (check_guest_registration, made right
\* after it whenever a phone number is known) found the guest, and the retry
\* then carries the token the refresh returned.
C10_AtMostOneRefreshOneRetry ==
  LastHadSession =>
    LET ops == CallsOf(RetriedOps)
        refreshes == CallsOf({"check_guest_registration"})
        phone == OrElse(last[1].loaded[1].phone_number, _normalize_phone(hSender))
    IN /\ Cardinality(ops) <= 2
       /\ Cardinality(refreshes) <= 1
       /\ \A i \in ops : \A j \in ops : LastCalls[i].op = LastCalls[j].op
       /\ \A i \in ops :
            (\A j \in ops : i <= j) =>
              /\ refreshes = (IF LastCalls[i].auth_error /\ Truthy(phone) THEN {i + 1} ELSE {})
              /\ ops \ {i} =
                   (IF LastCalls[i].auth_error /\ refreshes # {}
                         /\ LastCalls[i + 1].status = "found"
                    THEN {i + 2} ELSE {})
              /\ (ops # {i} => LastCalls[i + 2].token = LastCalls[i + 1].granted)
       /\ (ops = {} => refreshes = {})

\* A run in which the first call was an authorization error, the refresh found
\* the guest and the call was retried.
C10_Witness ==
  /\ LastHadSession
  /\ \E i \in CallsOf(RetriedOps) :
       /\ LastCalls[i].auth_error
       /\ i + 2 \in CallsOf(RetriedOps)
       /\ LastCalls[i + 1].op = "check_guest_registration"
       /\ LastCalls[i + 2].auth_error

\* ------------------------------------------------------- claims of Spec

\* The first _meta_seen call for the id was made less than the TTL ago.
InWindow(i) == idLog[i].first >= 0 /\ now < idLog[i].first + _META_SEEN_TTL_TICKS

\* The permits held, and the admitted messages not yet ended: a request between
\* acquire and submit, a queued task, a task a pool thread has taken.
PermitsHeld == _MAX_INFLIGHT - permits
Submitting == {r \in Requests : req[r].pc = "submit"}
Executing == {w \in Workers : wk[w].pc # "idle"}
InFlight == Cardinality(Submitting) + Len(queue) + Cardinality(Executing)

\* C1 (as claimed): within the TTL of an id's first de-dupe check, exactly one
\* of the _meta_seen calls made for it has returned false, with or without the
\* Redis ledger configured.
C1_ExactlyOneFalse == \A i \in MsgIds : InWindow(i) => idLog[i].falses = 1

\* C1 (amended): within the TTL of an id's first de-dupe check, exactly one
\* _meta_seen call for it has returned false if no Redis ledger is configured or
\* no call's Redis command raised; if one raised, the in-memory ledger answered
\* in its place and one or two calls have returned false, never more.
C1_OneFalsePerLedger ==
  \A i \in MsgIds :
    InWindow(i) =>
      /\ idLog[i].falses \in {1, 2}
      /\ (~idLog[i].fellBack => idLog[i].falses = 1)
      /\ (~redisOn => ~idLog[i].fellBack)

\* Redis configured, one call answered by Redis and one, whose Redis command
\* raised, by the in-memory ledger: two calls returned false within the TTL.
C1_Witness ==
  \E i \in MsgIds : InWindow(i) /\ redisOn /\ idLog[i].fellBack /\ idLog[i].falses = 2

\* C4 (as claimed): the permits held are as many as the tasks pool threads are
\* executing, and release() never found the semaphore full.
C4_HeldEqualsExecuting ==
  /\ PermitsHeld = Cardinality(Executing)
  /\ nReleased.errors = 0

\* C4 (amended): the permits held are as many as the admitted messages not yet
\* ended, whether being submitted, queued in the pool or executing; every ended
\* task, raised or not, gave its permit back, and release() never found the
\* semaphore full.
C4_HeldEqualsInFlight ==
  /\ PermitsHeld = InFlight
  /\ PermitsHeld = nAdmitted - nReleased.tasks
  /\ nReleased.errors = 0

\* A task whose processing raised is about to release while another waits in
\* the queue.
C4_Witness ==
  \E w \in Workers : wk[w].pc = "release" /\ wk[w].raised /\ queue # <<>>

\* C5: every permit acquired is given back by the end of its task, whether or
\* not the processing raised: the count of tasks ended catches up with the count
\* of permits acquired again and again, neither count ever decreases (so the
\* n-th acquisition is followed by the n-th end), a task's end releases once
\* (never more ends than acquisitions, never a ValueError), and with nothing in
\* flight every permit is free.
C5_AdmittedEventuallyReleased ==
  /\ []<>(nReleased.tasks = nAdmitted)
  /\ [][nAdmitted' >= nAdmitted /\ nReleased.tasks' >= nReleased.tasks]_vars
  /\ [](nReleased.tasks <= nAdmitted /\ nReleased.errors = 0)
  /\ [](InFlight = 0 => permits = _MAX_INFLIGHT)

\* Two or more messages were admitted, one's processing raised, all have ended
\* and the pool is full again.
C5_Witness ==
  /\ nAdmitted >= 2
  /\ nReleased.tasks = nAdmitted
  /\ nReleased.raised >= 1
  /\ permits = _MAX_INFLIGHT

\* C6: a request that reaches the semaphore with no permit free can take its
\* step (it does not wait), and the step ends the message's handling with
\* nothing submitted and no permit taken; so the messages in flight never
\* exceed _MAX_INFLIGHT.
C6_SaturationDrops ==
  /\ [][\A r \in Requests :
          (req[r].pc = "admit" /\ permits = 0 /\ req'[r] # req[r])
            => (req'[r] = IdleRequest /\ queue' = queue /\ permits' = 0)]_vars
  /\ [](\A r \in Requests :
          (req[r].pc = "admit" /\ permits = 0) => ENABLED WebhookAdmit(r))
  /\ [](InFlight <= _MAX_INFLIGHT /\ permits >= 0)

\* A message with an id has been dropped, every permit being held.
C6_Witness ==
  /\ permits = 0
  /\ InFlight = _MAX_INFLIGHT
  /\ \E i \in MsgIds : idLog[i].dropped /\ idLog[i].submits = 0

\* C7 (as claimed): a message dropped for want of a permit is not refused when
\* it is delivered again, with the same id, while a permit is free.
C7_DroppedRedeliveryAdmitted == \A i \in MsgIds : ~idLog[i].refused

\* C8 (as claimed): within the TTL of an id's first de-dupe check, at most one
\* task has been submitted for the id.
C8_AtMostOneSubmission == \A i \in MsgIds : InWindow(i) => idLog[i].submits <= 1

\* C8 (amended): within the TTL of an id's first de-dupe check, at most one task
\* has been submitted for the id if no Redis ledger is configured or no de-dupe
\* call's Redis command raised, and at most two otherwise; never more tasks than
\* calls that returned false.
C8_OneSubmissionPerLedger ==
  \A i \in MsgIds :
    InWindow(i) =>
      /\ idLog[i].submits <= idLog[i].falses
      /\ idLog[i].submits <= 2
      /\ (~idLog[i].fellBack => idLog[i].submits <= 1)

\* Two tasks have been submitted for one id within the TTL.
C8_Witness == \E i \in MsgIds : InWindow(i) /\ idLog[i].submits = 2

\* ------------------------------------------------------ claims of LSpec

\* The worker is inside handle_incoming_message: between the with statement's
\* entry and the handler's return.
Inside(w) == wk[w].pc \in {"load", "run"}

\* C2 (as claimed): no two pool threads are inside handle_incoming_message for
\* the same sender at once.
C2_SenderRunsNeverOverlap ==
  \A w \in Workers : \A v \in Workers \ {w} :
    (Inside(w) /\ Inside(v)) => wk[w].sender # wk[v].sender

\* A store entry apart from its time stamp.
Timeless(entry) == IF entry = <<>> THEN <<>> ELSE <<[entry[1] EXCEPT !.updated_at = 0]>>

\* The entries one message can leave in place of `entry` when it is processed
\* alone: the handler's outcomes, and with the Redis store the entry itself
\* (the store's get raised).
AloneAfter(entry, key, text) ==
  { Timeless(StoreAfter([entry |-> entry, session |-> entry], o)) :
      o \in RunOutcomes(key, text, entry, 0) }
    \cup (IF redisOn THEN {entry} ELSE {})

\* The entries two messages can leave when processed one after the other from
\* an empty store, the session not expiring in between.
InSequence(key, t1, t2) ==
  UNION { AloneAfter(e, key, t2) : e \in AloneAfter(<<>>, key, t1) }

\* Nothing of the sender is queued or being processed.
Quiet(key) ==
  /\ \A i \in 1..Len(queue) : queue[i].sender # key
  /\ \A w \in Workers : wk[w].pc # "idle" => wk[w].sender # key

\* C3 (as claimed): when exactly two messages of a sender have been processed,
\* within the session's lifetime, the stored session is one that processing the
\* two in sequence, in one order or the other, can leave.
C3_TwoMessagesAsInSequence ==
  \A key \in Senders :
    (Len(processed[key]) = 2 /\ Quiet(key) /\ now < SessionTtlTicks)
      => Timeless(store[key]) \in
           InSequence(key, processed[key][1], processed[key][2])
             \cup InSequence(key, processed[key][2], processed[key][1])

\* ------------------------------------------------ DSpec: runs compared

\* DSpec is HSpec over conversations of at most MaxRuns messages, each of whose
\* runs is compared with every second run from the same stored session.
MaxRuns == 3

HandleRun == nMsgs < MaxRuns /\ HandleMessage

DSpec == HInit /\ [][HandleRun]_hvars

\* ------------------------------------------- claims of HSpec and DSpec

\* The last run of the handler: its text, the session store.get returned to it
\* (in HSpec the stored entry itself, live at tick 0) and its outcome.
LastRun == last[1]

\* The clock readings at which a second run from the same stored entry is
\* considered, up to the entry's expiry.
RunTimes == 0..SessionTtlTicks

\* A second run from the stored entry `entry` at time t with the backend
\* results o: the outcome and the entry stored afterwards.
RunFrom(entry, text, o, t) ==
  LET got == StoreGet(entry, t)
      outcome == handle_incoming_message(hSender, text, got.session, o, t)
  IN [outcome |-> outcome, stored |-> StoreAfter(got, outcome)]

\* Every second run of the last run's text from the last run's stored entry.
SecondRuns(t) ==
  { RunFrom(LastRun.loaded, LastRun.text, o, t) :
      o \in OraclesFor(hSender, LastRun.text, StoreGet(LastRun.loaded, t).session) }

\* What the backend is asked in a call: the guest calls carry no token.
Request(call) ==
  IF call.op \in {"check_guest_registration", "register_guest"}
  THEN <<call.op, call.arg, call.aux>>
  ELSE <<call.op, call.arg, call.aux, call.token>>

\* The backend returned equal results to equal calls, over the calls of two runs.
EqualResultsToEqualCalls(calls1, calls2) ==
  LET calls == calls1 \o calls2 IN
  \A i \in 1..Len(calls) : \A j \in 1..Len(calls) :
    Request(calls[i]) = Request(calls[j]) => calls[i].result = calls[j].result

\* The entry stored after the last run.
LastStored == StoreAfter([entry |-> LastRun.loaded, session |-> LastRun.loaded], LastRun.outcome)

Persisted == { store[k][1] : k \in {x \in Senders : store[x] # <<>>} }

\* C12: every persisted session in state Menu has a non-empty guest_name.
C12_MenuHasGuestName ==
  \A session \in Persisted :
    session.state = ConversationState.MENU => Truthy(session.guest_name)

\* A persisted Menu session whose guest_name was overwritten, while the menu
\* or the condolence prompt was showing, by an auth refresh that found a guest
\* the backend holds without a name.
C12_Witness ==
  /\ last # <<>>
  /\ LastRun.loaded # <<>>
  /\ LastRun.loaded[1].state \in {ConversationState.MENU, ConversationState.WAIT_CONDOLENCE}
  /\ LastRun.loaded[1].guest_name = "Ama"
  /\ \E i \in CallsOf({"check_guest_registration"}) :
       LastCalls[i].result = _parse_guest_auth(NamelessGuest, "T2", "found")
  /\ \E session \in Persisted :
       session.state = ConversationState.MENU /\ session.guest_name = "233201"

\* C13: every persisted session with a non-empty event_id has a non-empty
\* event_name.
C13_EventIdHasEventName ==
  \A session \in Persisted : Truthy(session.event_id) => Truthy(session.event_name)

\* A run that adopted the event from the guest's known codes, without a
\* backend lookup, and persisted its id and display name.
C13_Witness ==
  /\ last # <<>>
  /\ LastRun.loaded # <<>>
  /\ ~Truthy(LastRun.loaded[1].event_id)
  /\ CallsOf({"get_event_by_code"}) = {}
  /\ LastRun.outcome.effect = "upsert"
  /\ \E session \in Persisted :
       session.event_id = "ABC" /\ session.event_name = _event_display_name("ABC")

\* The codes of a list under trimmed upper-case comparison, each once.
NoCodeTwice(codes) ==
  \A i \in 1..Len(codes) : \A j \in 1..Len(codes) :
    _normalize_event_code(codes[i]) = _normalize_event_code(codes[j]) => i = j

\* C14 (as claimed): in every persisted session funeral_unique_codes holds
\* each event code at most once under trimmed upper-case comparison, also
\* after the backend's guest record replaced the list.
C14_CodesAtMostOnce ==
  \A session \in Persisted : NoCodeTwice(session.funeral_unique_codes)

\* C15 (as claimed): in every persisted session event_code, event_id and
\* event_name are all set or all empty.
C15_EventAllOrNothing ==
  \A session \in Persisted :
    \/ Truthy(session.event_code) /\ Truthy(session.event_id) /\ Truthy(session.event_name)
    \/ ~Truthy(session.event_code) /\ ~Truthy(session.event_id) /\ ~Truthy(session.event_name)

\* C15 (amended): in every persisted session event_id and event_name are set
\* together and only with event_code; event_code is set without them only in
\* state wait_name, where it is the code the sender entered before a token
\* was known; a session in wait_event_code has none of the three, which is
\* also what a failed verification in wait_name leaves.
C15_EventIdentityTogether ==
  /\ \A session \in Persisted :
       /\ Truthy(session.event_id) <=> Truthy(session.event_name)
       /\ Truthy(session.event_id) => Truthy(session.event_code)
       /\ (Truthy(session.event_code) /\ ~Truthy(session.event_id))
            => session.state = ConversationState.WAIT_NAME
       /\ session.state = ConversationState.WAIT_EVENT_CODE
            => ~Truthy(session.event_code) /\ ~Truthy(session.event_id)
  /\ (last # <<>> /\ LastRun.outcome.out = TextMessage(<<"CODE_NOT_FOUND_ENTER_CODE">>))
       => LET session == store[hSender][1] IN
          /\ session.state = ConversationState.WAIT_EVENT_CODE
          /\ session.event_code = NONE /\ session.event_id = NONE
          /\ session.event_name = NONE

\* A persisted session in wait_name with the entered code pending and no
\* event, and before it a run whose verification of a pending code failed.
C15_Witness ==
  /\ last # <<>>
  /\ LastRun.loaded # <<>>
  /\ LastRun.loaded[1].state = ConversationState.WAIT_EVENT_CODE
  /\ LastRun.loaded[1].guest_name = "Ama"
  /\ \E session \in Persisted :
       /\ session.state = ConversationState.WAIT_NAME
       /\ session.event_code = "abc" /\ session.event_id = NONE

\* The last run was the first message of a sender without stored session, a
\* greeting.
LastWasGreetingOfNewSender ==
  last # <<>> /\ LastRun.loaded = <<>> /\ _is_greeting(LastRun.text)

\* C16 (as claimed): a sender with no stored session who sends a greeting gets
\* the welcome text, a session in wait_event_code is stored, and no backend
\* call is made.
C16_GreetingNoBackendCall ==
  LastWasGreetingOfNewSender =>
    /\ LastRun.outcome.out = TextMessage(WELCOME_TEXT)
    /\ store[hSender] # <<>>
    /\ store[hSender][1].state = ConversationState.WAIT_EVENT_CODE
    /\ LastRun.outcome.calls = <<>>

\* C16 (amended): a sender with no stored session who sends a greeting gets
\* the welcome text and a session in wait_event_code is stored; the only
\* backend call is one check_guest_registration with the phone number derived
\* from the sender key, made exactly when that number is not empty, and when
\* it finds a guest the stored session carries the guest's id, name, token and
\* codes.
C16_GreetingPrefetchOnly ==
  LastWasGreetingOfNewSender =>
    LET phone == _normalize_phone(hSender)
        calls == LastRun.outcome.calls
    IN /\ LastRun.outcome.out = TextMessage(WELCOME_TEXT)
       /\ store[hSender] # <<>>
       /\ store[hSender][1].state = ConversationState.WAIT_EVENT_CODE
       /\ Len(calls) = (IF phone = "" THEN 0 ELSE 1)
       /\ \A i \in 1..Len(calls) :
            /\ calls[i].op = "check_guest_registration" /\ calls[i].arg = phone
            /\ store[hSender][1].backend_token = calls[i].granted
            /\ (calls[i].status = "found"
                  => store[hSender][1].guest_name = calls[i].result.full_name)

\* The greeting of a new sender with a phone number, whose prefetch found the
\* guest.
C16_Witness ==
  /\ LastWasGreetingOfNewSender
  /\ LastRun.text = "hi"
  /\ Len(LastRun.outcome.calls) = 1
  /\ store[hSender][1].guest_name = "Kofi"

\* The last run handled, in wait_event_code and without a backend token, a
\* text that is not empty, not a greeting and not a global command.
LastWasCodeWithoutToken ==
  /\ last # <<>>
  /\ LastRun.loaded # <<>>
  /\ LastRun.loaded[1].state = ConversationState.WAIT_EVENT_CODE
  /\ ~Truthy(LastRun.loaded[1].backend_token)
  /\ normalize_text(LastRun.text) # ""
  /\ ~_is_greeting(LastRun.text)
  /\ _normalize_choice(LastRun.text) \notin {"restart", "help"}

\* C17: in wait_event_code without a backend token, a text that is not empty,
\* not a greeting and not a command is stored as the session's event_code as
\* sent (trimmed by normalize_text, its case kept), the state becomes
\* wait_name, the reply asks for the name, and no backend call is made.
C17_CodeStoredThenName ==
  LastWasCodeWithoutToken =>
    /\ store[hSender] # <<>>
    /\ store[hSender][1].event_code = normalize_text(LastRun.text)
    /\ store[hSender][1].state = ConversationState.WAIT_NAME
    /\ store[hSender][1].event_id = NONE
    /\ LastRun.outcome.out = TextMessage(<<"ASK_NAME">>)
    /\ LastRun.outcome.calls = <<>>

\* The code "abc" collected in lower case, as it was sent.
C17_Witness ==
  /\ LastWasCodeWithoutToken
  /\ LastRun.text = "abc"
  /\ store[hSender][1].event_code = "abc"
  /\ _normalize_event_code(LastRun.text) # "abc"

\* The last run handled a name in wait_name with a code pending, the
\* registration returned created or found with a token, and the event lookup
\* was made and returned found.
LastWasNameRegisteredAndFound ==
  /\ last # <<>>
  /\ LastRun.loaded # <<>>
  /\ LastRun.loaded[1].state = ConversationState.WAIT_NAME
  /\ Truthy(LastRun.loaded[1].event_code)
  /\ normalize_text(LastRun.text) # ""
  /\ \E i \in CallsOf({"register_guest"}) :
       LastCalls[i].status \in {"created", "found"} /\ Truthy(LastCalls[i].granted)
  /\ CallsOf({"get_event_by_code"}) # {}
  /\ \A i \in CallsOf({"get_event_by_code"}) : LastCalls[i].status = "found"

\* C18: in wait_name with a pending event code, when the sender sends a name,
\* the registration returns created or found with a token and the event lookup
\* returns found, the stored session is in state menu with guest_name the name
\* sent and the event of the lookup, and the outgoing message is the menu with
\* interactive_menu true.
C18_NameThenMenu ==
  LastWasNameRegisteredAndFound =>
    LET name == normalize_text(LastRun.text) IN
    /\ store[hSender] # <<>>
    /\ store[hSender][1].state = ConversationState.MENU
    /\ store[hSender][1].guest_name = name
    /\ \A i \in CallsOf({"get_event_by_code"}) :
         store[hSender][1].event_id = LastCalls[i].result.value
    /\ LastRun.outcome.out = OutgoingMessage(_menu_text(name), NONE, TRUE, name)

\* The name "Ama" registered as a new guest with token T1 and the pending
\* code found by the lookup.
C18_Witness ==
  /\ LastWasNameRegisteredAndFound
  /\ LastRun.text = "Ama"
  /\ \E i \in CallsOf({"register_guest"}) :
       LastCalls[i].status = "created" /\ LastCalls[i].granted = "T1"
  /\ store[hSender][1].guest_name = "Ama"
  /\ LastRun.outcome.out.interactive_menu

\* C19 (as claimed): in state menu with the event known, when the sender
\* chooses donate, the handler returns an outgoing text that ends with the
\* menu (after the backend's explanation when the donation is unavailable),
\* and the stored session stays in state menu.
C19_DonateAnsweredWithMenu ==
  (/\ last # <<>>
   /\ LastRun.loaded # <<>>
   /\ LastRun.loaded[1].state = ConversationState.MENU
   /\ Truthy(LastRun.loaded[1].guest_name)
   /\ Truthy(LastRun.loaded[1].event_id)
   /\ _normalize_choice(LastRun.text) = "donate")
    => /\ ~LastRun.outcome.raised
       /\ \E explanation \in {"UNAVAILABLE", "DONATE", "DONATE_FAILED"} :
            LastRun.outcome.out.text
              = <<explanation>> \o _menu_text(LastRun.loaded[1].guest_name)
       /\ store[hSender][1].state = ConversationState.MENU

\* ------------------------------------------- claims of LSpec, continued

\* _sender_lock was called for the key before thread w's call: a message of
\* the sender has been processed or another thread is processing one.
CalledBefore(key, w) ==
  \/ processed[key] # <<>>
  \/ \E v \in Workers \ {w} : wk[v].pc # "idle" /\ wk[v].sender = key

\* C20 (as claimed): every call of _sender_lock with the same key returns the
\* same lock object: a call for a key that was called for before creates no
\* lock, and returns the lock a thread now processing the same sender got.
C20_SameKeySameLock ==
  [][\A w \in Workers :
       (wk[w].pc = "idle" /\ wk'[w].pc = "acquire") =>
         LET key == wk'[w].sender IN
         /\ CalledBefore(key, w) => lockCount' = lockCount
         /\ \A v \in Workers \ {w} :
              (wk[v].pc # "idle" /\ wk[v].sender = key) => wk'[w].lock = wk[v].lock]_vars

\* ---------------------------------------------------------------- C21 (HSpec)

\* C21: handle_incoming_message returns a reply for every session state, every
\* text and every backend result, and never raises; the "donate" choice too,
\* whatever create_donation_intent would answer. TLC: the "donate" choice of a
\* named guest with an event raises TypeError at the call's missing `amount`.
C21_HandlerNeverRaises ==
  last # <<>> => /\ ~LastRun.outcome.raised
                 /\ LastRun.outcome.out.text # <<>>

\* ---------------------------------------------------------------- C22 (LSpec)

\* C22: when the session store's get raises, the caller does not fail: the
\* message is handled as if no session was found, so every worker goes on from
\* its load into the run of the handler, which answers with the welcome text.
\* TLC: the exception of RedisSessionStore.get leaves handle_incoming_message
\* and ends the task, nothing handled and no reply sent.
C22_GetFailureHandledAsNoSession ==
  [][\A w \in Workers :
       (wk[w].pc = "load" /\ wk'[w].pc # "load")
         => (wk'[w].pc = "run" /\ ~wk'[w].raised)]_vars

\* ------------------------------------ GSpec: the webhook's signature check

\* SETTINGS as the signature check reads them: verify_meta_signatures and
\* meta_app_secret ("" when META_APP_SECRET is not set).
SignatureSettings ==
  { [verify |-> v, secret |-> s] : v \in BOOLEAN, s \in {"", "s3cret"} }

\* hmac.new(secret, msg = raw_body, sha256).hexdigest(), kept symbolic.
HmacHex(secret, raw_body) == <<"hmac", secret, raw_body>>

\* request.headers.get("X-Hub-Signature-256", "") of a request without the header.
NoSignature == [scheme |-> "", digest |-> <<>>]

\* The X-Hub-Signature-256 headers a request can carry: none, one without the
\* "sha256=" prefix, and "sha256=" with the right digest, with another digest,
\* or with characters outside ASCII.
Signatures(raw_body) ==
  {NoSignature} \cup
  { [scheme |-> "sha1", digest |-> HmacHex("s3cret", raw_body)] } \cup
  { [scheme |-> "sha256", digest |-> d] :
      d \in {HmacHex("s3cret", raw_body), HmacHex("other", raw_body), <<"non-ascii">>} }

\* hmac.compare_digest on two str: TypeError when one has a character outside
\* ASCII. [ok, raised].
compare_digest(provided, expected) ==
  IF provided = <<"non-ascii">> THEN [ok |-> FALSE, raised |-> TRUE]
  ELSE [ok |-> provided = expected, raised |-> FALSE]

\* _verify_meta_signature(raw_body): [ok, raised].
_verify_meta_signature(settings, signature, raw_body) ==
  IF ~settings.verify THEN [ok |-> TRUE, raised |-> FALSE]
  ELSE IF settings.secret = "" THEN [ok |-> FALSE, raised |-> FALSE]
  ELSE IF signature.scheme # "sha256" THEN [ok |-> FALSE, raised |-> FALSE]
  ELSE compare_digest(signature.digest, HmacHex(settings.secret, raw_body))

\* The posts of GSpec.
MaxPosts == 3

\* The request thread of a POST that did not pass the signature check: what was
\* posted and the response's status.
RejectedRequest(settings, signature, m, status) ==
  [pc |-> "rejected", msg |-> NoMsg,
   post |-> [settings |-> settings, signature |-> signature, body |-> m],
   status |-> status]

\* A webhook that records the message's id before it checks the signature.
WebhookRejectAfterDedupe(r) ==
  /\ req[r].pc = "idle"
  /\ FirstIdle(req, r)
  /\ nDeliv < MaxPosts
  /\ nDeliv' = nDeliv + 1
  /\ \E m \in Messages : \E settings \in SignatureSettings : \E signature \in Signatures(m) :
       LET v == _verify_meta_signature(settings, signature, m) IN
       /\ ~v.ok
       /\ req' = [req EXCEPT ![r] =
            RejectedRequest(settings, signature, m, IF v.raised THEN 500 ELSE 403)]
       /\ metaSeen' = IF m.id = "" THEN metaSeen
                      ELSE LocalSeen(metaSeen, m.id, now).ledger
  /\ UNCHANGED <<now, store, hOnly, redisOn, redisSeen, permits, queue, wk,
                 senderLocks, lockCount, held, idLog, processed, tally>>

\* meta_webhook on a POST whose signature check does not return True: "invalid
\* signature", 403 is returned before the body is parsed; when compare_digest
\* raises, the request ends with the framework's 500 instead.
WebhookReject(r) ==
  /\ req[r].pc = "idle"
  /\ FirstIdle(req, r)
  /\ nDeliv < MaxPosts
  /\ nDeliv' = nDeliv + 1
  /\ \E m \in Messages : \E settings \in SignatureSettings : \E signature \in Signatures(m) :
       LET v == _verify_meta_signature(settings, signature, m) IN
       /\ ~v.ok
       /\ req' = [req EXCEPT ![r] =
            RejectedRequest(settings, signature, m, IF v.raised THEN 500 ELSE 403)]
  /\ UNCHANGED <<now, store, hOnly, redisOn, redisSeen, metaSeen, permits, queue, wk,
                 senderLocks, lockCount, held, idLog, processed, tally>>

\* The rejected request's thread ends.
WebhookReturn(r) ==
  /\ req[r].pc = "rejected"
  /\ req' = [req EXCEPT ![r] = IdleRequest]
  /\ UNCHANGED <<now, store, hOnly, redisOn, redisSeen, metaSeen, permits, queue, wk,
                 senderLocks, lockCount, held, nDeliv, idLog, processed, tally>>

\* meta_webhook on a POST whose signature check returns True.
WebhookAccept(r) ==
  /\ nDeliv < MaxPosts
  /\ \E m \in Messages : \E settings \in SignatureSettings : \E signature \in Signatures(m) :
       _verify_meta_signature(settings, signature, m).ok
  /\ WebhookDedupe(r)

GNext ==
  \/ \E r \in Requests : WebhookReject(r)
  \/ \E r \in Requests : WebhookReturn(r)
  \/ \E r \in Requests : WebhookAccept(r)
  \/ \E r \in Requests : WebhookAdmit(r)
  \/ \E r \in Requests : WebhookSubmit(r)
  \/ \E w \in Workers : WorkerTake(w)
  \/ \E w \in Workers : WorkerHandle(w)
  \/ \E w \in Workers : WorkerRelease(w)

GSpec == Init /\ [][GNext]_vars

\* ---------------------------------------------------------------- C23 (GSpec)

\* What a webhook request can change besides its own thread and the count of
\* posts: the de-dupe ledgers, the permits, the queue, the workers, the sender
\* locks, the sessions.
Beyond == <<store, redisSeen, metaSeen, permits, queue, wk, senderLocks, lockCount,
            held, idLog, nAdmitted, nReleased, processed>>

\* The rejected requests were posted with verification enabled and either no
\* app secret, no header, a header without the prefix, or a digest that is not
\* the body's HMAC.
RejectedForCause ==
  \A r \in Requests : req[r].pc = "rejected" =>
    LET p == req[r].post IN
    /\ p.settings.verify
    /\ \/ p.settings.secret = ""
       \/ p.signature = NoSignature
       \/ p.signature.scheme # "sha256"
       \/ p.signature.digest # HmacHex(p.settings.secret, p.body)

RejectionChangesNothing ==
  \A r \in Requests :
    (req[r].pc = "rejected" \/ req'[r].pc = "rejected") /\ req'[r] # req[r]
      => UNCHANGED Beyond

MaxOps == 4
MaxClock == 3

StoreKeys == {"233201", "233202"}

\* The sessions handed to upsert: a new one and one of a guest at the menu.
UpsertSessions(key) ==
  { Session(ConversationState.WAIT_EVENT_CODE, key),
    [Session(ConversationState.MENU, key) EXCEPT !.guest_name = "Ama"] }

\* History of SSpec, kept in `last`: per key, <<>> or the session and the time
\* of the latest upsert that no clear has followed.
Upserts == IF last = <<>> THEN [k \in StoreKeys |-> <<>>] ELSE last[1].upserts

SInit == HInit /\ hSender = "233201"

StoreGetOp(k) ==
  /\ nMsgs < MaxOps
  /\ nMsgs' = nMsgs + 1
  /\ LET got == StoreGet(store[k], now) IN
     /\ store' = [store EXCEPT ![k] = got.entry]
     /\ last' = <<[op |-> "get", key |-> k, result |-> got.session, at |-> now,
                   upserts |-> Upserts]>>
  /\ UNCHANGED <<now, hSender, lease, dvars>>

StoreUpsertOp(k) ==
  /\ nMsgs < MaxOps
  /\ nMsgs' = nMsgs + 1
  /\ \E session \in UpsertSessions(k) :
       /\ store' = [store EXCEPT ![k] = StoreUpsert(session, now)]
       /\ last' = <<[op |-> "upsert", key |-> k, result |-> <<>>, at |-> now,
                     upserts |-> [Upserts EXCEPT ![k] = <<[session |-> session, at |-> now]>>]]>>
  /\ UNCHANGED <<now, hSender, lease, dvars>>

StoreClearOp(k) ==
  /\ nMsgs < MaxOps
  /\ nMsgs' = nMsgs + 1
  /\ store' = [store EXCEPT ![k] = StoreClear]
  /\ last' = <<[op |-> "clear", key |-> k, result |-> <<>>, at |-> now,
                upserts |-> [Upserts EXCEPT ![k] = <<>>]]>>
  /\ UNCHANGED <<now, hSender, lease, dvars>>

\* time.time() advances.
Wait ==
  /\ now < MaxClock
  /\ now' = now + 1
  /\ UNCHANGED <<store, hOnly, dvars>>

SNext ==
  \/ \E k \in StoreKeys : StoreGetOp(k)
  \/ \E k \in StoreKeys : StoreUpsertOp(k)
  \/ \E k \in StoreKeys : StoreClearOp(k)
  \/ Wait

SSpec == SInit /\ [][SNext]_hvars

\* ---------------------------------------------------------------- C24 (SSpec)

\* What get(key) is to return by the history of calls, at time t.
Due(k, t) ==
  LET u == Upserts[k] IN
  IF u # <<>> /\ t - u[1].at < SessionTtlTicks
  THEN <<[u[1].session EXCEPT !.updated_at = u[1].at]>> ELSE <<>>

GetAnswersLatestUpsert ==
  (last # <<>> /\ last[1].op = "get") =>
    /\ last[1].result = Due(last[1].key, last[1].at)
    /\ last[1].result = <<>> => store[last[1].key] = <<>>

OtherKeysUntouched ==
  \A k \in StoreKeys :
    (last' # last /\ last'[1].key = k) =>
      \A j \in StoreKeys \ {k} :
        /\ store'[j] = store[j]
        /\ StoreGet(store'[j], now').session = StoreGet(store[j], now).session

\* C24: for the local session store and any sequence of get, upsert and clear:
\* get(key) returns the session of the latest upsert(key), stamped with that
\* upsert's time, if no clear(key) followed and less than the TTL has passed
\* since, and none otherwise; a get at or past the expiry leaves no entry;
\* a call on one key changes nothing of another key.
C24_StoreContract == []GetAnswersLatestUpsert /\ [][OtherKeysUntouched]_hvars

\* A get exactly at the expiry of an upserted session returned none, while the
\* other key's session lives.
C24_Witness ==
  /\ last # <<>> /\ last[1].op = "get" /\ last[1].result = <<>>
  /\ Upserts[last[1].key] # <<>>
  /\ last[1].at - Upserts[last[1].key][1].at = SessionTtlTicks
  /\ \E j \in StoreKeys \ {last[1].key} : StoreGet(store[j], now).session # <<>>

\* ------------------------------------------- the reply's sending (app.py)

\* The part of a menu text before _MENU_MARKER: "Thank you, <name>. How can we
\* help you today?".
MenuHeader(guest_name) == <<"MENU_HEADER", guest_name>>

\* The position of the last "MENU" in a text, 0 when there is none
\* (text.rfind(_MENU_MARKER)).
LastMenuAt(text) ==
  LET at == {i \in 1..Len(text) : text[i] = "MENU"} IN
  IF at = {} THEN 0 ELSE CHOOSE i \in at : \A j \in at : j <= i

\* _strip_menu_footer(text, guest_name), its first component: the text without
\* its trailing menu. With the guest's name the whole footer goes; otherwise
\* everything from the marker on, which leaves the menu's header.
_strip_menu_footer(text, guest_name) ==
  LET n == Len(text)
      i == LastMenuAt(text)
  IN
  IF Truthy(guest_name) /\ n >= 2 /\ SubSeq(text, n - 1, n) = _menu_text(guest_name)
  THEN SubSeq(text, 1, n - 2)
  ELSE IF i # 0 THEN SubSeq(text, 1, i - 1) \o MenuHeader(text[i + 1])
  ELSE text

\* One call of META.send_list_menu, send_text or send_document.
Send(kind, body, link) == [kind |-> kind, body |-> body, link |-> link]

\* _handle_one_meta_message after the handler has returned `outgoing`: the
\* calls of META it makes, `stored` being what SESSION_STORE.get returns and
\* `list_ok` what send_list_menu returns.
SendReply(outgoing, stored, list_ok) ==
  LET guest_name == IF stored # <<>> /\ Truthy(stored[1].guest_name)
                    THEN stored[1].guest_name ELSE outgoing.guest_name
      menu == outgoing.interactive_menu /\ outgoing.media_url = NONE
      list == IF menu
              THEN <<Send("list", IF Truthy(guest_name) THEN MenuHeader(guest_name)
                                  ELSE <<"MENU_HEADER">>, NONE)>>
              ELSE <<>>
      main_text == _strip_menu_footer(outgoing.text, guest_name)
  IN
  IF menu /\ list_ok THEN list
  ELSE list \o <<IF outgoing.media_url # NONE
                 THEN Send("document", main_text, outgoing.media_url)
                 ELSE Send("text", main_text, NONE)>>

\* ---------------------------------------------------------------- C25 (HSpec)

\* What SESSION_STORE.get returns after the last run of the handler.
StoredAfterLast == StoreGet(store[hSender], LastRun.at).session

HandleSoon ==
  /\ nMsgs < MaxRuns
  /\ \E gap \in 0..(IF last = <<>> THEN 0 ELSE SessionTtlTicks - 1) : HandleAt(now + gap)

TSpec == HInit /\ [][HandleSoon]_hvars

\* ---------------------------------------------------------------- C26 (TSpec)

\* C26: when every gap between a sender's consecutive messages is shorter than
\* the TTL, the sender's session is never treated as absent: every message
\* after the first finds the session. TLC: a message that writes nothing (a
\* greeting, help, the menu redisplayed, an unrecognized reply) does not
\* restart the TTL, and the message after it finds the session expired.
C26_ActiveSessionNeverAbsent ==
  (last # <<>> /\ nMsgs > 1) => LastRun.loaded # <<>>

\* ---------------------------------------------------------------- C27 (HSpec)

LastChoice == _normalize_choice(normalize_text(LastRun.text))

LastWasRestart == last # <<>> /\ LastRun.loaded # <<>> /\ LastChoice = "restart"

\* C27: whatever the state of the existing session, the restart command leaves
\* a stored session in state wait_event_code without event fields, whose guest
\* id, name, token and codes are those of the guest found by the one lookup of
\* the sender's phone made in that run, and empty without such a guest; the
\* reply is the welcome text.
C27_RestartStartsAfresh ==
  LastWasRestart =>
    LET o == LastRun.outcome
        phone_number == _normalize_phone(hSender)
        found == Len(o.calls) = 1 /\ o.calls[1].result.status = "found"
                   /\ o.calls[1].result.hasGuest
    IN /\ ~o.raised
       /\ o.out = TextMessage(WELCOME_TEXT)
       /\ \A i \in 1..Len(o.calls) :
            /\ o.calls[i].op = "check_guest_registration"
            /\ o.calls[i].arg = phone_number
       /\ Len(o.calls) = (IF phone_number = "" THEN 0 ELSE 1)
       /\ store[hSender] # <<>>
       /\ LET s == store[hSender][1] IN
          /\ s.state = ConversationState.WAIT_EVENT_CODE
          /\ s.phone_number = (IF phone_number = "" THEN NONE ELSE phone_number)
          /\ s.event_code = NONE /\ s.event_id = NONE /\ s.event_name = NONE
          /\ s.event_location = NONE /\ s.event_location_url = NONE
          /\ s.updated_at = LastRun.at
          /\ IF found
             THEN LET g == o.calls[1].result IN
                  /\ s.guest_id = g.guest_id /\ s.guest_name = g.full_name
                  /\ s.backend_token = g.token /\ s.funeral_unique_codes = g.codes
             ELSE /\ s.guest_id = NONE /\ s.guest_name = NONE
                  /\ s.backend_token = NONE /\ s.funeral_unique_codes = <<>>

\* A guest at the menu of an event restarts while the lookup finds no guest:
\* the new session has neither the event nor the guest's name.
C27_Witness ==
  /\ LastWasRestart
  /\ LastRun.loaded[1].state = ConversationState.MENU
  /\ Truthy(LastRun.loaded[1].guest_name)
  /\ Truthy(LastRun.loaded[1].event_id)
  /\ Len(LastRun.outcome.calls) = 1
  /\ LastRun.outcome.calls[1].result.status # "found"
  /\ store[hSender][1].guest_name = NONE

\* ---------------------------------------------------------------- C28 (HSpec)

LastWasHelp == last # <<>> /\ LastRun.loaded # <<>> /\ LastChoice = "help"

\* C28: whatever the state of the existing session, the help command is
\* answered with the help text, followed by the menu when the guest's name is
\* known; nothing is written to the store, the stored session stays as it was
\* loaded, and no backend call is made.
C28_HelpChangesNothing ==
  LastWasHelp =>
    LET o == LastRun.outcome
        session == LastRun.loaded[1]
    IN /\ ~o.raised
       /\ o.effect = "none"
       /\ o.calls = <<>>
       /\ store[hSender] = LastRun.loaded
       /\ o.out = TextMessage(IF Truthy(session.guest_name)
                              THEN <<"HELP">> \o _menu_text(session.guest_name)
                              ELSE <<"HELP">>)

\* Help asked at the condolence prompt by a guest whose name is known: the
\* reply carries the menu and the session still waits for the condolence.
C28_Witness ==
  /\ LastWasHelp
  /\ LastRun.loaded[1].state = ConversationState.WAIT_CONDOLENCE
  /\ Truthy(LastRun.loaded[1].guest_name)
  /\ store[hSender][1].state = ConversationState.WAIT_CONDOLENCE
  /\ LastRun.outcome.out.text = <<"HELP">> \o _menu_text(LastRun.loaded[1].guest_name)

\* ------------------- USpec: a stored session whose state the handler ignores

\* States a session read from the shared store can carry besides the four the
\* handler knows: the unused wait_donation_amount, and "" for a payload
\* without a state (RedisSessionStore.get: str(data.get("state") or "")).
UnknownStates == {"wait_donation_amount", ""}

\* The shared store holds such a session for hSender when the process starts.
UInit ==
  /\ now = 0
  /\ hSender \in {"233201", "anon"}
  /\ \E state \in UnknownStates :
       store = [k \in Senders |->
                  IF k = hSender
                  THEN <<Session(state, IF _normalize_phone(k) # ""
                                        THEN _normalize_phone(k) ELSE NONE)>>
                  ELSE <<>>]
  /\ nMsgs = 0
  /\ last = <<>>
  /\ redisOn = TRUE
  /\ DispatcherInit

USpec == UInit /\ [][HandleRun]_hvars

\* ---------------------------------------------------------------- C29 (USpec)

\* The text is taken as an event code in wait_event_code: not empty, no
\* greeting, no command.
IsCodeText(incoming_text) ==
  LET text == normalize_text(incoming_text) IN
  /\ text # ""
  /\ ~_is_greeting(text)
  /\ _normalize_choice(text) \notin {"restart", "help"}

\* C29: a message other than a command that finds a stored session in a state
\* the handler does not know clears the session and is answered with the
\* welcome text, and the sender's next message is handled as in
\* wait_event_code: a code sent next is taken as the event code (stored, or
\* looked up), not answered with the welcome text. In USpec a run finds no
\* session only after that clearing. TLC: the next message finds no session and
\* is answered with the welcome text again, whatever it is.
C29_UnknownStateThenCode ==
  last # <<>> =>
    LET o == LastRun.outcome IN
    /\ (LastRun.loaded # <<>> /\ LastRun.loaded[1].state \in UnknownStates
          /\ LastChoice \notin {"restart", "help"})
         => (o.effect = "clear" /\ store[hSender] = <<>>
               /\ o.out = TextMessage(WELCOME_TEXT) /\ o.calls = <<>>)
    /\ (LastRun.loaded = <<>> /\ IsCodeText(LastRun.text))
         => /\ o.out.text # WELCOME_TEXT
            /\ \/ Truthy(store[hSender][1].event_code)
               \/ \E i \in 1..Len(o.calls) : o.calls[i].op = "get_event_by_code"

\* ---------------------------------------------------------------- C30 (HSpec)

\* The last run found a session at the condolence prompt with the guest's
\* name, the guest's id and the event's id.
LastWasAtCondolence ==
  /\ last # <<>> /\ LastRun.loaded # <<>>
  /\ LastRun.loaded[1].state = ConversationState.WAIT_CONDOLENCE
  /\ Truthy(LastRun.loaded[1].guest_name)
  /\ Truthy(LastRun.loaded[1].guest_id)
  /\ Truthy(LastRun.loaded[1].event_id)

SubmitCalls == CallsOf({"submit_condolence"})

\* back or menu: the stored state is menu and nothing is called.
BackToMenuWithoutSubmit ==
  /\ LastRun.outcome.calls = <<>>
  /\ store[hSender][1].state = ConversationState.MENU

\* The condolence is submitted with the text, and the stored state is menu.
SubmittedThenMenu ==
  /\ SubmitCalls # {}
  /\ LastRun.outcome.calls[1].op = "submit_condolence"
  /\ \A i \in SubmitCalls :
       /\ LastRun.outcome.calls[i].arg = LastRun.loaded[1].event_id
       /\ LastRun.outcome.calls[i].aux =
            <<LastRun.loaded[1].guest_id, normalize_text(LastRun.text)>>
  /\ store[hSender][1].state = ConversationState.MENU

\* Empty text: the state stays and nothing is called.
StillAtCondolence ==
  /\ LastRun.outcome.calls = <<>>
  /\ store[hSender][1].state = ConversationState.WAIT_CONDOLENCE

\* C30 as stated: at the condolence prompt, back or menu returns to the menu
\* without submit_condolence; any other non-empty text is submitted and the
\* state becomes menu whatever the result; empty text changes nothing. TLC:
\* "help" and "restart" are non-empty texts that are not submitted.
C30_AnyTextSubmitted ==
  LastWasAtCondolence =>
    /\ ~LastRun.outcome.raised
    /\ IF LastChoice \in {"back", "menu"} THEN BackToMenuWithoutSubmit
       ELSE IF normalize_text(LastRun.text) # "" THEN SubmittedThenMenu
       ELSE StillAtCondolence

\* C30, amended: the same for every text that is not one of the commands help
\* and restart, which are handled before the state is looked at.
C30_FreeTextSubmitted ==
  (LastWasAtCondolence /\ LastChoice \notin {"help", "restart"}) =>
    /\ ~LastRun.outcome.raised
    /\ IF LastChoice \in {"back", "menu"} THEN BackToMenuWithoutSubmit
       ELSE IF normalize_text(LastRun.text) # "" THEN SubmittedThenMenu
       ELSE StillAtCondolence

\* A condolence was submitted, the backend answered with an error, and the
\* session is back at the menu.
C30_Witness ==
  /\ LastWasAtCondolence
  /\ LastChoice \notin {"help", "restart", "back", "menu", ""}
  /\ SubmitCalls # {}
  /\ \A i \in SubmitCalls : LastRun.outcome.calls[i].result.status = "error"
  /\ store[hSender][1].state = ConversationState.MENU

\* ---------------------------------------------------------------- C31 (HSpec)

\* The last run found a session in wait_name and the text was not empty.
LastWasAtName ==
  /\ last # <<>> /\ LastRun.loaded # <<>>
  /\ LastRun.loaded[1].state = ConversationState.WAIT_NAME
  /\ normalize_text(LastRun.text) # ""

EventCalls == CallsOf({"get_event_by_code"})

\* The pending code was adopted from the known codes (no lookup made, the
\* event's id is the code) or the run's last lookup returned found.
AdoptedOrVerified ==
  LET s == store[hSender][1] IN
  IF EventCalls = {}
  THEN /\ Truthy(s.event_code)
       /\ s.event_id = _normalize_event_code(s.event_code)
       /\ CodesHave(s.funeral_unique_codes, s.event_code)
  ELSE \E i \in EventCalls :
         /\ \A j \in EventCalls : j <= i
         /\ LastCalls[i].status = "found"
         /\ s.event_id = LastCalls[i].result.value

EventFieldsCleared ==
  LET s == store[hSender][1] IN
  /\ s.event_code = NONE /\ s.event_id = NONE /\ s.event_name = NONE
  /\ s.event_location = NONE /\ s.event_location_url = NONE

\* The guest records the run obtained: register_guest's created or found, and
\* a found check_guest_registration of the refresh.
GuestCalls ==
  {i \in 1..Len(LastCalls) :
     \/ LastCalls[i].op = "register_guest"
          /\ LastCalls[i].status \in {"created", "found"} /\ LastCalls[i].result.hasGuest
     \/ LastCalls[i].op = "check_guest_registration"
          /\ LastCalls[i].status = "found" /\ LastCalls[i].result.hasGuest}

\* C31 as stated: in wait_name with a non-empty text, the text is stored as
\* guest_name, and the stored state is menu only if the pending code was
\* adopted from the known codes or verified as found; otherwise it is
\* wait_event_code with the five event fields cleared.
C31_NameStoredThenMenuOrCode ==
  LastWasAtName =>
    LET s == store[hSender][1] IN
    /\ ~LastRun.outcome.raised
    /\ s.guest_name = normalize_text(LastRun.text)
    /\ s.state \in {ConversationState.MENU, ConversationState.WAIT_EVENT_CODE}
    /\ s.state = ConversationState.MENU => AdoptedOrVerified
    /\ s.state = ConversationState.WAIT_EVENT_CODE => EventFieldsCleared

\* C31, amended: the same for a text that is not one of the commands help and
\* restart, with guest_name the text unless the run refreshed the guest's
\* authorization, which stores the backend's name for the guest instead;
\* guest id, token and codes are those of the last guest record the run
\* obtained, or those loaded when it obtained none.
C31_FreeNameStoredThenMenuOrCode ==
  (LastWasAtName /\ LastChoice \notin {"help", "restart"}) =>
    LET s == store[hSender][1]
        refreshed == \E i \in GuestCalls : LastCalls[i].op = "check_guest_registration"
    IN
    /\ ~LastRun.outcome.raised
    /\ ~refreshed => s.guest_name = normalize_text(LastRun.text)
    /\ refreshed => \E i \in GuestCalls :
                      /\ LastCalls[i].op = "check_guest_registration"
                      /\ s.guest_name = LastCalls[i].result.full_name
    /\ s.state \in {ConversationState.MENU, ConversationState.WAIT_EVENT_CODE}
    /\ s.state = ConversationState.MENU => AdoptedOrVerified
    /\ s.state = ConversationState.WAIT_EVENT_CODE => EventFieldsCleared
    /\ IF GuestCalls = {}
       THEN /\ s.guest_id = LastRun.loaded[1].guest_id
            /\ s.backend_token = LastRun.loaded[1].backend_token
       ELSE \E i \in GuestCalls :
              /\ \A j \in GuestCalls : j <= i
              /\ s.guest_id = LastCalls[i].result.guest_id
              /\ s.backend_token = LastCalls[i].result.token

\* A name is sent with a code pending, the guest is registered with a token,
\* and the lookup does not find the code: the session waits for a code again,
\* the event fields cleared, the name and the guest's id kept.
C31_Witness ==
  /\ LastWasAtName /\ LastChoice \notin {"help", "restart"}
  /\ Truthy(LastRun.loaded[1].event_code)
  /\ EventCalls # {}
  /\ \A i \in EventCalls : LastCalls[i].status = "not_found"
  /\ store[hSender][1].state = ConversationState.WAIT_EVENT_CODE
  /\ EventFieldsCleared
  /\ store[hSender][1].guest_name = normalize_text(LastRun.text)
  /\ Truthy(store[hSender][1].guest_id)

\* ---------------------------------------------------------------- C32 (HSpec)

\* The last run found a session in wait_event_code with a token, looked the
\* text up as a code, and its last lookup did not return found.
LastWasCodeNotFound ==
  /\ last # <<>> /\ LastRun.loaded # <<>>
  /\ LastRun.loaded[1].state = ConversationState.WAIT_EVENT_CODE
  /\ Truthy(LastRun.loaded[1].backend_token)
  /\ ~_guest_has_event_code(LastRun.loaded[1], normalize_text(LastRun.text))
  /\ EventCalls # {}
  /\ \E i \in EventCalls : /\ \A j \in EventCalls : j <= i
                           /\ LastCalls[i].status # "found"

EventFields(s) ==
  <<s.event_code, s.event_id, s.event_name, s.event_location, s.event_location_url>>

\* C32: in wait_event_code with a token, when the code is not among the known
\* codes and the lookup, after the one refresh and retry if any, does not
\* return found, the reply is the apology, the stored state stays
\* wait_event_code and the event fields stay as they were loaded.
C32_NotFoundStays ==
  LastWasCodeNotFound =>
    /\ ~LastRun.outcome.raised
    /\ LastRun.outcome.out = TextMessage(<<"CODE_NOT_FOUND">>)
    /\ store[hSender] # <<>>
    /\ store[hSender][1].state = ConversationState.WAIT_EVENT_CODE
    /\ EventFields(store[hSender][1]) = EventFields(LastRun.loaded[1])
    /\ Cardinality(EventCalls) <= 2

\* The lookup failed for the token, the guest was refreshed, and the second
\* lookup did not find the code.
C32_Witness ==
  /\ LastWasCodeNotFound
  /\ Cardinality(EventCalls) = 2
  /\ \E i \in EventCalls : LastCalls[i].status = "not_found"
  /\ LastRun.outcome.effect = "upsert"
  /\ store[hSender][1].state = ConversationState.WAIT_EVENT_CODE

\* ------------------------------------------ RSpec: the Redis sender lease

\* The three seconds _handle_one_meta_message waits for the lease, and the
\* thirty seconds a lease lasts (ttl_ms=30_000), in ticks of the clock.
LeaseWaitTicks == 1
LeaseTtlTicks == 2

\* A key of Redis that holds a value whose PX time has not run out.
LeaseLive(entry, t) == entry # <<>> /\ t < entry[1].expires

\* RedisLock.try_acquire at the server: SET key token NX PX ttl.
RedisLockSet(entry, token, t) ==
  IF LeaseLive(entry, t)
  THEN [ok |-> FALSE, entry |-> entry]
  ELSE [ok |-> TRUE, entry |-> <<[token |-> token, expires |-> t + LeaseTtlTicks]>>]

\* A release that deletes the key whatever it holds.
RedisLockReleaseUnchecked(entry, token, t) == <<>>

\* RedisLock._RELEASE_SCRIPT at the server: the key is deleted when it
\* holds the caller's token.
RedisLockRelease(entry, token, t) ==
  IF LeaseLive(entry, t) /\ entry[1].token = token THEN <<>> ELSE entry

\* A RedisLock object whose loop has no deadline to reach.
NewRedisLockNoDeadline(token, t) ==
  [token |-> token, acquired |-> FALSE, deadline |-> MaxClock + 1,
   ended |-> "none", result |-> "none"]

\* A thread's RedisLock object with the deadline of its loop, how the loop
\* ended and, once release has run, what release did.
NewRedisLock(token, t) ==
  [token |-> token, acquired |-> FALSE, deadline |-> t + LeaseWaitTicks,
   ended |-> "none", result |-> "none"]

\* The thread is at the statement pc of _handle_one_meta_message with a
\* RedisLock object.
LeaseAt(w, pc) == "rl" \in DOMAIN wk[w] /\ wk[w].pc = pc

RInit == Init /\ redisOn

\* The senders whose messages the threads of RSpec process.
LeaseSenders == {"233201"}

\* _handle_one_meta_message begins for a message of sender key: the local
\* lock object is looked up, a RedisLock with a token of its own is made and
\* the deadline is set.
LeaseStart(w) ==
  /\ wk[w].pc = "idle"
  /\ FirstIdle(wk, w)
  /\ nDeliv < MaxTasks
  /\ now + LeaseWaitTicks <= MaxClock
  /\ \E key \in LeaseSenders :
       LET got == _sender_lock(senderLocks, key, now, lockCount)
       IN /\ senderLocks' = got.locks
          /\ lockCount' = got.count
          /\ wk' = [wk EXCEPT ![w] =
                      [pc |-> "lease", sender |-> key, text |-> IdleWorker.text,
                       lock |-> got.lock, ref |-> "none", obj |-> <<>>,
                       raised |-> FALSE, rl |-> NewRedisLock(nDeliv + 1, now)]]
  /\ nDeliv' = nDeliv + 1
  /\ UNCHANGED <<now, store, hOnly, redisOn, redisSeen, metaSeen, permits, queue,
                 req, held, idLog, processed, tally>>

\* while time.time() < deadline: redis_lock.try_acquire() answers. A True
\* ends the loop; after a False the thread sleeps and tries again.
LeaseTry(w) ==
  /\ LeaseAt(w, "lease")
  /\ now < wk[w].rl.deadline
  /\ LET set == RedisLockSet(lease[wk[w].sender], wk[w].rl.token, now)
     IN /\ lease' = [lease EXCEPT ![wk[w].sender] = set.entry]
        /\ wk' = [wk EXCEPT ![w].rl.acquired = set.ok,
                            ![w].rl.ended = IF set.ok THEN "acquired" ELSE @,
                            ![w].pc = IF set.ok THEN "acquire" ELSE "lease"]
  /\ UNCHANGED <<now, store, hSender, nMsgs, last, redisOn, redisSeen, metaSeen,
                 permits, queue, req, senderLocks, lockCount, held, nDeliv, idLog,
                 processed, tally>>

\* try_acquire raises (the server may or may not have set the key): the
\* exception is logged and the loop is left, the object not acquired.
LeaseTryRaises(w) ==
  /\ LeaseAt(w, "lease")
  /\ now < wk[w].rl.deadline
  /\ \E applied \in BOOLEAN :
       lease' = [lease EXCEPT ![wk[w].sender] =
                   IF applied
                   THEN RedisLockSet(lease[wk[w].sender], wk[w].rl.token, now).entry
                   ELSE @]
  /\ wk' = [wk EXCEPT ![w].pc = "acquire", ![w].rl.ended = "raised"]
  /\ UNCHANGED <<now, store, hSender, nMsgs, last, redisOn, redisSeen, metaSeen,
                 permits, queue, req, senderLocks, lockCount, held, nDeliv, idLog,
                 processed, tally>>

\* The deadline has passed: the loop ends without the lease.
LeaseDeadline(w) ==
  /\ LeaseAt(w, "lease")
  /\ now >= wk[w].rl.deadline
  /\ wk' = [wk EXCEPT ![w].pc = "acquire", ![w].rl.ended = "deadline"]
  /\ UNCHANGED <<now, store, hOnly, redisOn, redisSeen, metaSeen, permits, queue,
                 req, senderLocks, lockCount, held, nDeliv, idLog, processed, tally>>

\* The body of `with local_lock:` runs and the lock object is released.
LeaseProcess(w) ==
  /\ LeaseAt(w, "load")
  /\ held' = held \ {wk[w].lock}
  /\ wk' = [wk EXCEPT ![w].pc = "unlease"]
  /\ UNCHANGED <<now, store, hOnly, redisOn, redisSeen, metaSeen, permits, queue,
                 req, senderLocks, lockCount, nDeliv, idLog, processed, tally>>

\* finally: redis_lock.release(). Nothing is sent when the object is not
\* acquired; otherwise the script runs, or the call raises (the script run
\* or not) and the exception is logged; the object ends not acquired.
LeaseRelease(w) ==
  /\ LeaseAt(w, "unlease")
  /\ LET key == wk[w].sender
         rl == wk[w].rl
         after == RedisLockRelease(lease[key], rl.token, now)
     IN \E raises, applied \in BOOLEAN :
          /\ raises \/ applied
          /\ lease' = [lease EXCEPT ![key] =
                         IF rl.acquired /\ applied THEN after ELSE @]
          /\ wk' = [wk EXCEPT ![w].pc = "idle",
                      ![w].rl = [NewRedisLock(0, 0) EXCEPT !.result =
                        CASE ~rl.acquired -> "skipped"
                          [] raises -> "raised"
                          [] after # lease[key] -> "deleted"
                          [] OTHER -> "kept"]]
  /\ UNCHANGED <<now, store, hSender, nMsgs, last, redisOn, redisSeen, metaSeen,
                 permits, queue, req, senderLocks, lockCount, held, nDeliv, idLog,
                 processed, tally>>

\* The clock advances; Redis drops the keys whose PX time has run out.
LeaseWait ==
  /\ now < MaxClock
  /\ now' = now + 1
  /\ lease' = [k \in Senders |-> IF LeaseLive(lease[k], now + 1) THEN lease[k] ELSE <<>>]
  /\ UNCHANGED <<store, hSender, nMsgs, last, dvars>>

RNext ==
  \/ \E w \in Workers :
       \/ LeaseStart(w)
       \/ LeaseTry(w)
       \/ LeaseTryRaises(w)
       \/ LeaseDeadline(w)
       \/ WorkerAcquire(w)
       \/ LeaseProcess(w)
       \/ LeaseRelease(w)
  \/ LeaseWait

RSpec == RInit /\ [][RNext]_vars

\* The thread's RedisLock and the key of its sender.
LeaseOf(w) == lease[wk[w].sender]

\* The key of w's sender holds a live lease with a token that is not w's.
ForeignLease(w) ==
  /\ LeaseLive(LeaseOf(w), now)
  /\ LeaseOf(w)[1].token # wk[w].rl.token

\* C33: a release never removes the lease of another holder: a step of
\* redis_lock.release() leaves every key as it is, except that a thread
\* whose object is acquired may delete the key of its own sender when that
\* key still holds the thread's own token; a thread that did not acquire
\* the lease deletes nothing.
C33_ReleaseDeletesOwnLeaseOnly ==
  [][\A w \in Workers :
       (LeaseAt(w, "unlease") /\ wk'[w].pc = "idle")
         => \/ lease' = lease
            \/ /\ wk[w].rl.acquired
               /\ LeaseOf(w) # <<>>
               /\ LeaseOf(w)[1].token = wk[w].rl.token
               /\ lease' = [lease EXCEPT ![wk[w].sender] = <<>>]]_vars

\* A thread has released after its lease ran out and another thread took
\* the key: the script kept the other thread's lease, which is still live.
C33_Witness ==
  \E w \in Workers :
    /\ LeaseAt(w, "idle")
    /\ wk[w].rl.result = "kept"
    /\ ForeignLease(w)

\* RSpec with the clock running and every thread taking the steps it can
\* take; a raising Redis call is never required.
FairRSpec ==
  /\ RSpec
  /\ WF_vars(LeaseWait)
  /\ \A w \in Workers :
       /\ WF_vars(LeaseTry(w))
       /\ WF_vars(LeaseDeadline(w))
       /\ WF_vars(WorkerAcquire(w))
       /\ WF_vars(LeaseProcess(w))

\* The loop of w ends in this step.
LeaseLoopEnds(w) == LeaseAt(w, "lease") /\ wk'[w].pc # "lease"

InNoLedger(i) == redisSeen[i] <= now /\ metaSeen[i] <= now

\* The ids of the messages that carry one.
LedgerIds == {m.id : m \in Messages} \ {""}

\* _meta_seen for id i, should the Redis call raise now.
SeenOnError(i) == _meta_seen(i, redisOn, TRUE, redisSeen, metaSeen, now)

\* C35: when the Redis ledger raises, _meta_seen answers from the in-memory
\* ledger: for an id that neither ledger holds the answer is "not seen" and
\* the id is entered in the in-memory ledger, Redis's keys left as they are;
\* and the delivery for which an id first fell back, no ledger holding it,
\* goes on to the permit as a message not seen.
C35_LedgerErrorFallsBack ==
  /\ [](\A i \in LedgerIds :
          (redisOn /\ InNoLedger(i))
            => /\ ~SeenOnError(i).seen
               /\ SeenOnError(i).fellBack
               /\ SeenOnError(i).local[i] > now
               /\ SeenOnError(i).redis = redisSeen)
  /\ [][\A i \in LedgerIds :
          (InNoLedger(i) /\ ~idLog[i].fellBack /\ idLog'[i].fellBack)
            => /\ idLog'[i].falses = idLog[i].falses + 1
               /\ \E r \in Requests :
                    /\ req[r].pc = "idle"
                    /\ req'[r].pc = "admit"
                    /\ req'[r].msg.id = i]_vars

\* A first delivery passed on to the permit after the Redis call raised:
\* only the in-memory ledger holds its id.
C35_Witness ==
  \E i \in LedgerIds : \E r \in Requests :
    /\ req[r].pc = "admit"
    /\ req[r].msg.id = i
    /\ idLog[i].fellBack
    /\ idLog[i].falses = 1
    /\ idLog[i].first = now
    /\ redisSeen[i] = 0
    /\ metaSeen[i] > now

\* The statements of a task in the order of the code: the lock registry and
\* the lock (acquire), store.get (load), the rest of the handler with its
\* writes and then the sending (run), the end of the with block (unlock),
\* the finally clause of the task (release).
StepAfter(pc) ==
  CASE pc = "idle" -> {"acquire"}
    [] pc = "acquire" -> {"load"}
    [] pc = "load" -> {"run", "unlock"}
    [] pc = "run" -> {"unlock"}
    [] pc = "unlock" -> {"release"}
    [] pc = "release" -> {"idle"}

\* Thread w is inside the with block.
InWithBlock(w) == wk[w].pc \in {"load", "run", "unlock"}

RedisRoundTrip(session) ==
  [session EXCEPT !.state = IF Truthy(@) THEN @ ELSE ""]

\* RedisSessionStore.get: the key's payload as a new Session object, or None
\* once the TTL that setex gave the key has run out.
RedisGet(entry, t) ==
  IF entry = <<>> \/ Expired(entry, t)
  THEN [entry |-> <<>>, session |-> <<>>]
  ELSE [entry |-> entry, session |-> <<RedisRoundTrip(entry[1])>>]

\* History and second store of ESpec, kept in `last`: the keys of the Redis
\* store, the answers of the latest get, and the session object the caller
\* holds in each run (in the local run it may be the object the store holds
\* for its key); <<>> while it holds none.
Compared ==
  IF last = <<>>
  THEN [shared |-> [k \in StoreKeys |-> <<>>], op |-> "none",
        local_answer |-> <<>>, shared_answer |-> <<>>, handle |-> <<>>]
  ELSE last[1]

\* The caller's handle after the local store stopped holding, for key k, the
\* object it held.
Detached(handle, k) ==
  IF handle # <<>> /\ handle[1].key = k
  THEN <<[handle[1] EXCEPT !.alias = FALSE]>>
  ELSE handle

\* What a caller does to a session it got: an assignment of the handler's.
Assigned(session, field) ==
  IF field = "guest_name"
  THEN [session EXCEPT !.guest_name = "Ama"]
  ELSE [session EXCEPT !.state = ConversationState.MENU]

EInit == SInit

\* session = store.get(k), in both runs.
BothGet(k) ==
  /\ nMsgs < MaxOps
  /\ nMsgs' = nMsgs + 1
  /\ LET c == Compared
         l == StoreGet(store[k], now)
         r == RedisGet(c.shared[k], now)
         kept == IF l.entry = store[k] THEN c.handle ELSE Detached(c.handle, k)
     IN /\ store' = [store EXCEPT ![k] = l.entry]
        /\ last' = <<[c EXCEPT !.shared[k] = r.entry, !.op = "get",
                        !.local_answer = l.session, !.shared_answer = r.session,
                        !.handle =
                          IF l.session # <<>> /\ r.session # <<>>
                          THEN <<[key |-> k, alias |-> TRUE,
                                  local |-> l.session[1], shared |-> r.session[1]]>>
                          ELSE kept]>>
  /\ UNCHANGED <<now, hSender, lease, dvars>>

\* The caller assigns to a field of the session it holds, in both runs; in
\* the local run the object may be the store's.
BothMutate ==
  /\ nMsgs < MaxOps
  /\ Compared.handle # <<>>
  /\ nMsgs' = nMsgs + 1
  /\ LET c == Compared
         h == c.handle[1]
     IN \E field \in {"guest_name", "state"} :
          /\ store' = IF h.alias
                       THEN [store EXCEPT ![h.key] = <<Assigned(h.local, field)>>]
                       ELSE store
          /\ last' = <<[c EXCEPT !.op = "mutate",
                          !.handle = <<[h EXCEPT !.local = Assigned(h.local, field),
                                                 !.shared = Assigned(h.shared, field)]>>]>>
  /\ UNCHANGED <<now, hSender, lease, dvars>>

\* store.upsert(k, session), in both runs, of the session the caller holds
\* (under its key) or of a new one.
BothUpsert(k) ==
  /\ nMsgs < MaxOps
  /\ nMsgs' = nMsgs + 1
  /\ LET c == Compared IN
     \/ /\ c.handle # <<>>
        /\ c.handle[1].key = k
        /\ LET h == c.handle[1] IN
           /\ store' = [store EXCEPT ![k] = StoreUpsert(h.local, now)]
           /\ last' = <<[c EXCEPT !.shared[k] = StoreUpsert(h.shared, now),
                           !.op = "upsert",
                           !.handle = <<[h EXCEPT !.alias = TRUE,
                                           !.local = touch(h.local, now),
                                           !.shared = touch(h.shared, now)]>>]>>
     \/ \E session \in UpsertSessions(k) :
          /\ store' = [store EXCEPT ![k] = StoreUpsert(session, now)]
          /\ last' = <<[c EXCEPT !.shared[k] = StoreUpsert(session, now),
                          !.op = "upsert", !.handle = Detached(c.handle, k)]>>
  /\ UNCHANGED <<now, hSender, lease, dvars>>

\* store.clear(k), in both runs.
BothClear(k) ==
  /\ nMsgs < MaxOps
  /\ nMsgs' = nMsgs + 1
  /\ LET c == Compared IN
       /\ store' = [store EXCEPT ![k] = StoreClear]
       /\ last' = <<[c EXCEPT !.shared[k] = <<>>, !.op = "clear",
                       !.handle = Detached(c.handle, k)]>>
  /\ UNCHANGED <<now, hSender, lease, dvars>>

ENext ==
  \/ \E k \in StoreKeys : BothGet(k)
  \/ BothMutate
  \/ \E k \in StoreKeys : BothUpsert(k)
  \/ \E k \in StoreKeys : BothClear(k)
  \/ Wait

ESpec == EInit /\ [][ENext]_hvars

\* C37: the local and the Redis session store are interchangeable: called
\* alike, with the caller assigning to the sessions it got, every get
\* returns equal sessions, or None in both.
C37_StoresInterchangeable ==
  Compared.op = "get" => Compared.local_answer = Compared.shared_answer

\* Thread w holds its sender's lock object or waits for it.
HoldsOrAwaits(w) == wk[w].pc \in {"acquire", "load", "run", "unlock"}

\* C38 (as claimed): the sweep of the lock registry never removes the entry
\* of a lock that a thread holds or waits for: while a thread is at the lock
\* or inside the with block, the registry has an entry for its sender, and
\* the entry's lock is the thread's. TLC: the sweep made for another sender's
\* message removes the entry of a lock that is held, its timestamp being an
\* hour old.
C38_SweepSparesLocksInUse ==
  \A w \in Workers :
    HoldsOrAwaits(w)
      => /\ senderLocks[wk[w].sender] # <<>>
         /\ senderLocks[wk[w].sender][1].lock = wk[w].lock

\* The calls of META for the last run's message, the list menu's sending
\* succeeding or failing.
LastSends(list_ok) == SendReply(LastRun.outcome.out, StoredAfterLast, list_ok)

\* C39 (as claimed): every text or document sent for a processed message has
\* a body or caption that is not empty, and the text sent after a failed
\* list menu contains the menu's options. TLC: after a failed list menu the
\* text has no menu and no other content, the menu having been stripped.
C39_SentBodiesNotEmpty ==
  (last # <<>> /\ ~LastRun.outcome.raised) =>
    /\ \A list_ok \in BOOLEAN :
         \A i \in 1..Len(LastSends(list_ok)) :
           LastSends(list_ok)[i].kind \in {"text", "document"}
             => LastSends(list_ok)[i].body # <<>>
    /\ LastRun.outcome.out.interactive_menu
         => \E i \in 1..Len(LastSends(FALSE)) :
              /\ LastSends(FALSE)[i].kind = "text"
              /\ LastMenuAt(LastSends(FALSE)[i].body) # 0

\* The operations that are called for an event, and the one called for a
\* guest.
EventOps == {"get_brochure", "get_funeral_location", "create_donation_intent",
             "submit_condolence"}

\* The calls in `calls` name the event, and a guest where one is needed.
CallsHaveIdentity(calls) ==
  \A i \in 1..Len(calls) :
    /\ calls[i].op \in EventOps => Truthy(calls[i].arg)
    /\ calls[i].op = "submit_condolence" => Truthy(calls[i].aux[1])

\* The stored session of hSender at the menu or at the condolence prompt
\* with the event id gone (None or ""), or at the prompt with the guest id
\* gone, as a store written elsewhere may hold it.
WithoutIdentity ==
  IF store[hSender] = <<>> THEN {}
  ELSE LET session == store[hSender][1] IN
       IF session.state = ConversationState.MENU
       THEN { [session EXCEPT !.event_id = gone] : gone \in {NONE, ""} }
       ELSE IF session.state = ConversationState.WAIT_CONDOLENCE
       THEN { [session EXCEPT !.event_id = gone] : gone \in {NONE, ""} }
            \cup { [session EXCEPT !.guest_id = gone] : gone \in {NONE, ""} }
       ELSE {}

\* The texts that ask for an operation on the event in the session's state.
AsksForEvent(session, text) ==
  LET choice == _normalize_choice(normalize_text(text)) IN
  IF session.state = ConversationState.MENU
  THEN choice \in {"brochure", "donate", "location"}
  ELSE choice \notin {"help", "restart"}

\* The replies of the handler to a session that lacks what the operation
\* needs.
MissingContextReplies == {"MISSING_EVENT", "MISSING_CONTEXT", "NO_GUEST_PROFILE"}

\* C40: the handler calls get_brochure, get_funeral_location,
\* create_donation_intent and submit_condolence with an event id only, and
\* submit_condolence with a guest id only: every such call of the last run
\* has them, and a session at the menu or at the condolence prompt that
\* lacks the event id (or, at the prompt, the guest id) is answered with a
\* missing-context reply and no call, whatever the text that asks.
C40_NoCallWithoutIdentity ==
  /\ CallsHaveIdentity(LastCalls)
  /\ \A s \in WithoutIdentity :
       \A text \in {t \in TextsFor(<<s>>) : AsksForEvent(s, t)} :
         \A outcome \in Outcomes(hSender, text, <<s>>, now) :
           /\ ~outcome.raised
           /\ outcome.calls = <<>>
           /\ outcome.out.text[1] \in MissingContextReplies

\* The last run submitted a condolence twice, the second time after the
\* refresh, each time for the session's event and guest.
C40_Witness ==
  /\ last # <<>>
  /\ Cardinality(CallsOf({"submit_condolence"})) = 2
  /\ CallsHaveIdentity(LastCalls)
  /\ WithoutIdentity # {}

====
